---- MODULE Spec2Model ----
(***************************************************************************)
(* Feedback clustering and scoring pipeline of produckai-backend:          *)
(* apps/api/scripts/run_clustering.py, apps/api/api/clustering.py,         *)
(* apps/api/api/themes.py and packages/shared/scoring.py.                  *)
(***************************************************************************)
EXTENDS Integers, Sequences, FiniteSets, TLC

(***************************************************************************)
(* Bounds of the model.                                                    *)
(***************************************************************************)
MaxInsights == 3
DedupFeedback == 2
NumFeedback == 4
MaxClusters == 2
MaxGen == 2

(***************************************************************************)
(* Titles are sequences of one-character strings.                          *)
(***************************************************************************)
Lower(c) ==
  IF c = "E" THEN "e" ELSE IF c = "X" THEN "x" ELSE IF c = "S" THEN "s" ELSE c

LowerStr(s) == [k \in 1..Len(s) |-> Lower(s[k])]

TitleExports == <<"E", "x", "p", "o", "r", "t", "s">>
TitleExport == <<"e", "x", "p", "o", "r", "t">>
TitleXports == <<"x", "p", "o", "r", "t", "s">>
TitleSearch == <<"S", "e", "a", "r", "c", "h">>
TitleSso == <<"S", "s", "o">>
TitleDark == <<"d", "a", "r", "k">>
Titles == {TitleExports, TitleExport, TitleXports, TitleSearch}

(* two titles whose ratio depends on which of them is the first argument *)
TitleAaabaa == <<"a", "a", "a", "b", "a", "a">>
TitleAbaababa == <<"a", "b", "a", "a", "b", "a", "b", "a">>
OrderedTitles == {TitleAaabaa, TitleAbaababa}

Max2(x, y) == IF x >= y THEN x ELSE y
Min2(x, y) == IF x <= y THEN x ELSE y

(* length of the common run of a[i..ahi-1] and b[j..bhi-1] *)
RECURSIVE RunLen(_, _, _, _, _, _)
RunLen(a, b, i, j, ahi, bhi) ==
  IF i >= ahi \/ j >= bhi \/ a[i] # b[j] THEN 0
  ELSE 1 + RunLen(a, b, i + 1, j + 1, ahi, bhi)

(* difflib find_longest_match: among the common blocks of a[alo..ahi-1]   *)
(* and b[blo..bhi-1] a longest one, of those the earliest in a, of those  *)
(* the earliest in b; <<alo, blo, 0>> when nothing matches                *)
Earlier(m, q) ==
  \/ m[3] > q[3]
  \/ m[3] = q[3] /\ m[1] < q[1]
  \/ m[3] = q[3] /\ m[1] = q[1] /\ m[2] <= q[2]

FindLongestMatch(a, b, alo, ahi, blo, bhi) ==
  IF alo >= ahi \/ blo >= bhi THEN <<alo, blo, 0>>
  ELSE CHOOSE m \in UNION {{x \in blocks : \A q \in blocks : Earlier(x, q)} :
                           blocks \in {{<<p[1], p[2], RunLen(a, b, p[1], p[2], ahi, bhi)>> :
                                        p \in (alo..(ahi - 1)) \X (blo..(bhi - 1))}}} : TRUE

(* difflib get_matching_blocks: total size of the matching blocks *)
RECURSIVE MatchCount(_, _, _, _, _, _)
MatchCount(a, b, alo, ahi, blo, bhi) ==
  CHOOSE n \in {IF m[3] = 0 THEN 0
                ELSE m[3] + MatchCount(a, b, alo, m[1], blo, m[2])
                          + MatchCount(a, b, m[1] + m[3], ahi, m[2] + m[3], bhi) :
                m \in {FindLongestMatch(a, b, alo, ahi, blo, bhi)}} : TRUE

(* SequenceMatcher(None, t1.lower(), t2.lower()).ratio() = 2*M/T, as the   *)
(* pair <<2*M, T>> of numerator and denominator                            *)
title_similarity(t1, t2) ==
  CHOOSE r \in {<<2 * MatchCount(a, b, 1, Len(a) + 1, 1, Len(b) + 1), Len(a) + Len(b)>> :
                a \in {LowerStr(t1)}, b \in {LowerStr(t2)}} : TRUE

(* similarity > 0.85 *)
SimilarityAboveThreshold(t1, t2) ==
  LET r == title_similarity(t1, t2)
  IN IF r[2] = 0 THEN TRUE ELSE 100 * r[1] > 85 * r[2]

(* the comparison for every pair of titles of the model, computed once *)
AllTitles == Titles \cup {TitleSso, TitleDark} \cup OrderedTitles
SimilarTitles ==
  {q : q \in {p \in AllTitles \X AllTitles : SimilarityAboveThreshold(p[1], p[2])}}

(***************************************************************************)
(* Committed database tables (what any session reads), the pipeline run,   *)
(* and the bookkeeping of the last deduplicate_insights call.              *)
(***************************************************************************)
VARIABLES
  themes,            \* Theme rows: set of theme ids
  feedback_themes,   \* FeedbackTheme rows: set of <<feedback id, theme id>>
  theme_metrics,     \* ThemeMetrics rows: set of theme ids
  insights,          \* Insight rows: function insight id -> row
  insight_feedback,  \* InsightFeedback rows: set of <<insight id, feedback id>>
  pc,                \* position of the running operation
  dedup,             \* what the last deduplicate_insights call did
  entry,             \* entry point of the run: "pipeline" or "task"
  has_openai,        \* InsightGenerationService.has_openai
  embedded,          \* ids of the Feedback rows with an embedding
  feedback_customer, \* Feedback.customer_id (0 = None)
  customer_acv,      \* Customer.acv by customer id
  session,           \* the open session of run_clustering: flushed, uncommitted rows
  todo,              \* cluster_results still to be processed by the loop
  log,               \* per theme id: what the loop body did for its cluster
  pre_db,            \* the committed tables when the run started
  seen,              \* what a concurrent reader saw
  result,            \* value returned by run_clustering_pipeline
  status_file,       \* content of STATUS_FILE
  tasks,             \* the background tasks added by the trigger handlers
  responses,         \* what each trigger handler answered, in order
  displayed,         \* what the insight handlers last returned, per insight id
  fn_in,             \* arguments of the pure function under study
  fn_out             \* its result

dbVars == <<themes, feedback_themes, theme_metrics, insights, insight_feedback>>
custVars == <<feedback_customer, customer_acv>>
runVars == <<entry, has_openai, embedded, session, todo, log, pre_db, seen, result>>
trigVars == <<status_file, tasks, responses>>
fnVars == <<fn_in, fn_out>>
otherVars == <<status_file, tasks, responses, displayed, fn_in, fn_out>>
vars == <<themes, feedback_themes, theme_metrics, insights, insight_feedback, pc, dedup,
          entry, has_openai, embedded, feedback_customer, customer_acv, session, todo,
          log, pre_db, seen, result, status_file, tasks, responses, displayed, fn_in,
          fn_out>>

FeedbackIds == 1..NumFeedback
NoTheme == 0

NoDedup ==
  [state |-> "none", pre_insights |-> {}, pre_links |-> {},
   to_delete |-> {}, merged_into |-> <<>>, merged_late |-> {}, uow_keys |-> <<>>]

(***************************************************************************)
(* deduplicate_insights.  The session is created with autoflush=False, so  *)
(* every query inside the loops reads the committed link rows dbl; the     *)
(* changes live in the session until db.commit():                          *)
(*   mem[r]   the insight_id the loaded link object of row r now carries   *)
(*   deleted  the link objects passed to db.delete                         *)
(***************************************************************************)
MergeLinks(rows, dbl, st, i_id, j_id) ==
  LET swap == rows[j_id].priority_score > rows[i_id].priority_score
      keep == IF swap THEN j_id ELSE i_id
      del == IF swap THEN i_id ELSE j_id
      feedback_links == {r \in dbl : r[1] = del}
      existing(r) == <<keep, r[2]>> \in dbl
  IN [mem |-> [r \in dbl |-> IF r \in feedback_links /\ ~existing(r)
                              THEN keep ELSE st.mem[r]],
      deleted |-> st.deleted \cup {r \in feedback_links : existing(r)},
      to_delete |-> st.to_delete \cup {del},
      merged_into |-> [x \in DOMAIN st.merged_into |->
                         IF x = del THEN keep ELSE st.merged_into[x]],
      merged_late |-> st.merged_late \cup (IF keep \in st.to_delete THEN {del} ELSE {})]

RECURSIVE DedupInner(_, _, _, _, _, _)
DedupInner(order, rows, dbl, i, j, st) ==
  IF j > Len(order) THEN st
  ELSE IF order[j] \in st.to_delete
    THEN DedupInner(order, rows, dbl, i, j + 1, st)
  ELSE IF <<rows[order[i]].title, rows[order[j]].title>> \in SimilarTitles
    THEN DedupInner(order, rows, dbl, i, j + 1,
                    MergeLinks(rows, dbl, st, order[i], order[j]))
  ELSE DedupInner(order, rows, dbl, i, j + 1, st)

RECURSIVE DedupOuter(_, _, _, _, _)
DedupOuter(order, rows, dbl, i, st) ==
  IF i > Len(order) THEN st
  ELSE IF order[i] \in st.to_delete
    THEN DedupOuter(order, rows, dbl, i + 1, st)
  ELSE DedupOuter(order, rows, dbl, i + 1,
                  DedupInner(order, rows, dbl, i, i + 1, st))

(* db.commit() of the session: the unit of work emits the UPDATEs of the   *)
(* moved link rows, then the DELETEs; insight_feedback has PRIMARY KEY     *)
(* (insight_id, feedback_id) and insight_id REFERENCES insights ON DELETE  *)
(* CASCADE.                                                                *)
FlushDedup(rows, dbl, st) ==
  LET live == dbl \ st.deleted
      key(r) == <<st.mem[r], r[2]>>
      conflict == \E r1 \in live, r2 \in live : r1 # r2 /\ key(r1) = key(r2)
      updated == {key(r) : r \in live}
  IN [raised |-> conflict,
      insights |-> IF conflict THEN rows
                   ELSE [x \in (DOMAIN rows) \ st.to_delete |-> rows[x]],
      links |-> IF conflict THEN dbl
                ELSE {k \in updated : k[1] \notin st.to_delete}]

deduplicate_insights(order, rows, dbl) ==
  LET st0 == [mem |-> [r \in dbl |-> r[1]], deleted |-> {}, to_delete |-> {},
              merged_into |-> [x \in DOMAIN rows |-> x], merged_late |-> {}]
      st == IF Len(order) < 2 THEN st0 ELSE DedupOuter(order, rows, dbl, 1, st0)
      fl == FlushDedup(rows, dbl, st)
  IN [state |-> IF fl.raised THEN "raised" ELSE "returned",
      insights |-> fl.insights,
      links |-> fl.links,
      pre_insights |-> DOMAIN rows,
      pre_links |-> dbl,
      to_delete |-> st.to_delete,
      merged_into |-> st.merged_into,
      merged_late |-> st.merged_late,
      uow_keys |-> [r \in dbl \ st.deleted |-> <<st.mem[r], r[2]>>]]

(* the orders in which db.query(Insight).all() may return the rows *)
Orders(S) ==
  {o \in [1..Cardinality(S) -> S] : \A a, b \in 1..Cardinality(S) : a # b => o[a] # o[b]}

DedupRecord(d) ==
  [state |-> d.state, pre_insights |-> d.pre_insights,
   pre_links |-> d.pre_links, to_delete |-> d.to_delete,
   merged_into |-> d.merged_into, merged_late |-> d.merged_late,
   uow_keys |-> d.uow_keys]

(***************************************************************************)
(* SpecDedup: deduplicate_insights applied to an arbitrary insight table.  *)
(***************************************************************************)
DedupPriorities == {50, 75}

NotSeen == [read |-> FALSE, tables |-> <<>>]
NoResult == [returned |-> FALSE, themes_created |-> 0, insights_created |-> 0]
NoSession == [ok |-> TRUE, themes |-> {}, fts |-> {}, insights |-> <<>>, links |-> {}]

NoStatusFile == [exists |-> FALSE]
NoTasks == <<>>
NoDisplay == <<>>
NoCall == [fn |-> "none"]
NoTriggers == status_file = NoStatusFile /\ tasks = NoTasks /\ responses = <<>>
NoCalls == fn_in = NoCall /\ fn_out = NoCall

Tables ==
  [themes |-> themes, feedback_themes |-> feedback_themes,
   theme_metrics |-> theme_metrics, insights |-> insights,
   insight_feedback |-> insight_feedback]

InsightRow(theme, title, sev, eff, prio, supporting, affected) ==
  [theme_id |-> theme, title |-> title, severity |-> sev, effort |-> eff,
   priority_score |-> prio, supporting_feedback_ids |-> supporting,
   affected_customers |-> affected]

InitDedup ==
  /\ themes = {}
  /\ feedback_themes = {}
  /\ theme_metrics = {}
  /\ \E n \in 0..MaxInsights :
       /\ insight_feedback \in SUBSET ((1..n) \X (1..DedupFeedback))
       /\ \E t \in [1..n -> Titles] \cup [1..n -> OrderedTitles],
               p \in [1..n -> DedupPriorities] :
            insights = [x \in 1..n |->
                          InsightRow(NoTheme, t[x], "medium", "medium", p[x],
                                     {l[2] : l \in {m \in insight_feedback : m[1] = x}},
                                     <<>>)]
  /\ pc = "dedup"
  /\ dedup = NoDedup
  /\ entry = "none"
  /\ has_openai = FALSE
  /\ embedded = {}
  /\ feedback_customer = [f \in FeedbackIds |-> 0]
  /\ customer_acv = <<>>
  /\ session = NoSession
  /\ todo = <<>>
  /\ log = <<>>
  /\ pre_db = Tables
  /\ seen = NotSeen
  /\ result = NoResult
  /\ NoTriggers
  /\ displayed = NoDisplay
  /\ NoCalls

Deduplicate ==
  /\ pc = "dedup"
  /\ \E order \in Orders(DOMAIN insights) :
       LET d == deduplicate_insights(order, insights, insight_feedback)
       IN /\ insights' = d.insights
          /\ insight_feedback' = d.links
          /\ dedup' = DedupRecord(d)
  /\ pc' = "dedup_done"
  /\ UNCHANGED <<themes, feedback_themes, theme_metrics, custVars, otherVars, runVars>>

NextDedup == Deduplicate

SpecDedup == InitDedup /\ [][NextDedup]_vars

RECURSIVE Survivor(_, _)
Survivor(d, x) ==
  IF x \notin d.to_delete THEN x ELSE Survivor(d, d.merged_into[x])

(* C1: after deduplicate_insights every feedback item linked to an insight *)
(* before the call is linked to that insight if it survives, else to the   *)
(* insight it was merged into; no link row references a deleted insight;   *)
(* and no (insight, feedback) pair is carried by two link objects.         *)
C1_DedupKeepsLinks ==
  pc = "dedup_done" =>
    /\ \A l \in dedup.pre_links :
         <<Survivor(dedup, l[1]), l[2]>> \in insight_feedback
    /\ \A l \in insight_feedback : l[1] \in DOMAIN insights
    /\ \A r1, r2 \in DOMAIN dedup.uow_keys :
         r1 # r2 => dedup.uow_keys[r1] # dedup.uow_keys[r2]

(***************************************************************************)
(* Insight generation and persistence inside the loop of run_clustering.   *)
(***************************************************************************)
clustering_min_feedback_count == 2
MinLlmItems == 3

SeverityScores == [low |-> 25, medium |-> 50, high |-> 75, critical |-> 100]
EffortScores == [low |-> 75, medium |-> 50, high |-> 25]

(* dict.get(key, 50) *)
severity_score(sev) == IF sev \in DOMAIN SeverityScores THEN SeverityScores[sev] ELSE 50
effort_score(eff) == IF eff \in DOMAIN EffortScores THEN EffortScores[eff] ELSE 50

(* the same with round() in place of int() *)
priority_score_rounded(sev, eff) ==
  LET total == severity_score(sev) + effort_score(eff)
      half == total \div 2
  IN IF total % 2 = 0 THEN half ELSE IF half % 2 = 0 THEN half ELSE half + 1

(* int((severity_score + effort_score) / 2): int() truncates *)
priority_score(sev, eff) == (severity_score(sev) + effort_score(eff)) \div 2

(* a JSON value that is not hashable (a list or an object): dict.get raises *)
Unhashable == "<list>"

(* customers_data: one record per distinct customer of the cluster's feedback *)
AffectedCustomers(cluster, fc, acv) ==
  {[id |-> c, acv |-> acv[c]] : c \in {fc[f] : f \in cluster} \ {0}}

(* _generate_simple_insight: severity from the counts and the label *)
FallbackSeverity(cluster, fc, has_enterprise_impact) ==
  LET unique_customer_ids == {fc[f] : f \in cluster} \ {0}
      affected == IF unique_customer_ids = {} THEN 1 ELSE Cardinality(unique_customer_ids)
      n == Cardinality(cluster)
  IN IF (affected >= 5 \/ n >= 10) \/ has_enterprise_impact THEN "high"
     ELSE IF affected >= 3 \/ n >= 5 THEN "medium"
     ELSE "low"

(* the label categories the fallback templates distinguish (a sample):     *)
(* title and effort per category, enterprise keywords raise the severity   *)
LabelCategories == {"sso", "export", "dark mode"}
FallbackTitle(cat) ==
  IF cat = "sso" THEN TitleSso ELSE IF cat = "export" THEN TitleExports ELSE TitleDark
FallbackEffort(cat) == IF cat = "dark mode" THEN "low" ELSE "medium"

_generate_simple_insight(cluster, fc, cat) ==
  <<[title |-> FallbackTitle(cat),
     severity |-> FallbackSeverity(cluster, fc, cat = "sso"),
     effort |-> FallbackEffort(cat)]>>

(* what the text-generation collaborator may answer (a sample): any title, *)
(* any JSON value as severity                                              *)
LlmPool ==
  {[title |-> TitleExports, severity |-> "critical", effort |-> "low"],
   [title |-> TitleExport, severity |-> "medium", effort |-> "medium"],
   [title |-> TitleExports, severity |-> Unhashable, effort |-> "low"],
   [title |-> TitleSearch, severity |-> "urgent", effort |-> "low"]}

LlmLists == UNION {[1..n -> LlmPool] : n \in 0..MaxGen}

(* generate_insights_for_cluster: the lists it can return *)
generate_insights_for_cluster(openai, cluster, fc) ==
  LET fallback == {_generate_simple_insight(cluster, fc, cat) : cat \in LabelCategories}
  IN IF Cardinality(cluster) < MinLlmItems THEN fallback
     ELSE IF openai THEN LlmLists \cup fallback
     ELSE fallback

SetMin(S) == CHOOSE x \in S : \A y \in S : x <= y

ThemeId(run, cluster) == 10 * run + SetMin(cluster)
InsightId(theme, k) == 10 * theme + k

(* the generated insights the for-loop stores before the first one whose   *)
(* severity or effort makes dict.get raise                                 *)
RECURSIVE StoredPrefix(_, _)
StoredPrefix(gen, k) ==
  IF k > Len(gen) THEN Len(gen)
  ELSE IF gen[k].severity = Unhashable \/ gen[k].effort = Unhashable THEN k - 1
  ELSE StoredPrefix(gen, k + 1)

(***************************************************************************)
(* Spec: one run of the pipeline, started through run_clustering_pipeline  *)
(* (entry "pipeline") or through cluster_feedback_task (entry "task"),     *)
(* over the tables a previous run left, with a concurrent reader.          *)
(***************************************************************************)
PrevRun == 1
ThisRun == 2

EmptyTables ==
  [themes |-> {}, feedback_themes |-> {}, theme_metrics |-> {}, insights |-> <<>>,
   insight_feedback |-> {}]

(* rows the loop body adds to the session for one cluster, storing the     *)
(* first `stored` generated insights                                       *)
ClusterRows(run, cluster, gen, stored, fc, acv) ==
  LET theme == ThemeId(run, cluster)
      ids == {InsightId(theme, k) : k \in 1..stored}
  IN [themes |-> {theme},
      fts |-> {<<f, theme>> : f \in cluster},
      insights |-> [x \in ids |->
                      LET g == gen[x - 10 * theme]
                      IN InsightRow(theme, g.title, g.severity, g.effort,
                                    priority_score(g.severity, g.effort),
                                    cluster, AffectedCustomers(cluster, fc, acv))],
      links |-> ids \X cluster]

(* the tables after an earlier successful run over the cluster {1, 2} *)
OldTables(fc, acv) ==
  LET rows == ClusterRows(PrevRun, {1, 2},
                          _generate_simple_insight({1, 2}, fc, "export"), 1, fc, acv)
  IN [themes |-> rows.themes, feedback_themes |-> rows.fts,
      theme_metrics |-> rows.themes, insights |-> rows.insights,
      insight_feedback |-> rows.links]

Init ==
  /\ feedback_customer = [f \in FeedbackIds |-> IF f <= 2 THEN 1 ELSE IF f = 3 THEN 2 ELSE 0]
  /\ customer_acv = <<100, 50>>
  /\ \E t \in {EmptyTables, OldTables(feedback_customer, customer_acv)} :
       /\ themes = t.themes
       /\ feedback_themes = t.feedback_themes
       /\ theme_metrics = t.theme_metrics
       /\ insights = t.insights
       /\ insight_feedback = t.insight_feedback
       /\ pre_db = t
  /\ has_openai \in BOOLEAN
  /\ \E n \in {clustering_min_feedback_count - 1, NumFeedback} : embedded = 1..n
  /\ pc = "idle"
  /\ dedup = NoDedup
  /\ entry = "none"
  /\ session = NoSession
  /\ todo = <<>>
  /\ log = <<>>
  /\ seen = NotSeen
  /\ result = NoResult
  /\ NoTriggers
  /\ displayed = NoDisplay
  /\ NoCalls

(* run_clustering_pipeline is called *)
StartPipeline ==
  /\ pc = "idle"
  /\ pc' = "clear"
  /\ entry' = "pipeline"
  /\ UNCHANGED <<dbVars, custVars, otherVars, dedup, has_openai, embedded, session, todo, log,
                 pre_db, seen, result>>

(* cluster_feedback_task calls run_clustering directly *)
StartTask ==
  /\ pc = "idle"
  /\ pc' = "load"
  /\ entry' = "task"
  /\ UNCHANGED <<dbVars, custVars, otherVars, dedup, has_openai, embedded, session, todo, log,
                 pre_db, seen, result>>

(* run_clustering_pipeline: the five bulk deletes and db.commit() *)
ClearOld ==
  /\ pc = "clear"
  /\ themes' = {}
  /\ feedback_themes' = {}
  /\ theme_metrics' = {}
  /\ insights' = <<>>
  /\ insight_feedback' = {}
  /\ pc' = "load"
  /\ UNCHANGED <<custVars, otherVars, dedup, runVars>>

(* the clearing transaction fails: get_db_context rolls back and re-raises *)
ClearFails ==
  /\ pc = "clear"
  /\ pc' = "failed_clear"
  /\ UNCHANGED <<dbVars, custVars, otherVars, dedup, runVars>>

RECURSIVE ClusterSeq(_, _)
ClusterSeq(labels, k) ==
  IF k > MaxClusters THEN <<>>
  ELSE LET members == {f \in DOMAIN labels : labels[f] = k}
       IN (IF members = {} THEN <<>> ELSE <<members>>) \o ClusterSeq(labels, k + 1)

(* cluster ids carry no meaning: take the labelling that numbers the       *)
(* clusters by their smallest member                                       *)
OrderedLabels(labels) ==
  \A k \in 1..MaxClusters :
    LET members == {f \in DOMAIN labels : labels[f] = k}
        before == {f \in DOMAIN labels : labels[f] = k - 1}
    IN members # {} /\ k > 1 => before # {} /\ SetMin(before) < SetMin(members)

(* As mutated below the short-circuit raises instead of returning.         *)
TooFewFeedbackRaises ==
  /\ pc = "load"
  /\ Cardinality(embedded) < clustering_min_feedback_count
  /\ pc' = "failed_create"
  /\ UNCHANGED <<dbVars, custVars, otherVars, dedup, runVars>>

(* run_clustering: too few embedded feedback items, return *)
TooFewFeedback ==
  /\ pc = "load"
  /\ Cardinality(embedded) < clustering_min_feedback_count
  /\ pc' = IF entry = "pipeline" THEN "counts" ELSE "done"
  /\ UNCHANGED <<dbVars, custVars, otherVars, dedup, runVars>>

(* run_clustering: cluster_embeddings labels every item with a cluster or  *)
(* with noise (0)                                                          *)
ClusterFeedback ==
  /\ pc = "load"
  /\ Cardinality(embedded) >= clustering_min_feedback_count
  /\ \E labels \in [embedded -> 0..MaxClusters] :
       /\ OrderedLabels(labels)
       /\ todo' = ClusterSeq(labels, 1)
  /\ pc' = "loop"
  /\ UNCHANGED <<dbVars, custVars, otherVars, dedup, entry, has_openai, embedded, session, log,
                 pre_db, seen, result>>

AddToSession(rows) ==
  [ok |-> TRUE,
   themes |-> session.themes \cup rows.themes,
   fts |-> session.fts \cup rows.fts,
   insights |-> [x \in DOMAIN session.insights \cup DOMAIN rows.insights |->
                   IF x \in DOMAIN rows.insights THEN rows.insights[x]
                   ELSE session.insights[x]],
   links |-> session.links \cup rows.links]

LogEntry(theme, outcome, generated, stored) ==
  [x \in DOMAIN log \cup {theme} |->
     IF x = theme THEN [outcome |-> outcome, generated |-> generated, stored |-> stored]
     ELSE log[x]]

(* loop body: theme, feedback links, generated insights and their links;   *)
(* an exception while an insight is built is caught and logged             *)
ProcessCluster ==
  /\ pc = "loop"
  /\ todo # <<>>
  /\ session.ok
  /\ LET cluster == Head(todo)
     IN \E gen \in generate_insights_for_cluster(has_openai, cluster, feedback_customer) :
          LET stored == StoredPrefix(gen, 1)
          IN /\ session' = AddToSession(ClusterRows(ThisRun, cluster, gen, stored,
                                                     feedback_customer, customer_acv))
             /\ log' = LogEntry(ThemeId(ThisRun, cluster),
                                IF stored < Len(gen) THEN "insight_raised" ELSE "ok",
                                Len(gen), stored)
  /\ todo' = Tail(todo)
  /\ UNCHANGED <<dbVars, custVars, otherVars, dedup, pc, entry, has_openai, embedded, pre_db, seen,
                 result>>

(* loop body: generate_insights_for_cluster raises, caught and logged *)
GenerationRaises ==
  /\ pc = "loop"
  /\ todo # <<>>
  /\ session.ok
  /\ LET cluster == Head(todo)
     IN /\ session' = AddToSession(ClusterRows(ThisRun, cluster, <<>>, 0,
                                                feedback_customer, customer_acv))
        /\ log' = LogEntry(ThemeId(ThisRun, cluster), "generation_raised", 0, 0)
  /\ todo' = Tail(todo)
  /\ UNCHANGED <<dbVars, custVars, otherVars, dedup, pc, entry, has_openai, embedded, pre_db, seen,
                 result>>

(* loop body: db.flush() of the first insight raises; the session rolls    *)
(* its transaction back and stays unusable, the except clause logs         *)
InsightFlushRaises ==
  /\ pc = "loop"
  /\ todo # <<>>
  /\ session.ok
  /\ LET cluster == Head(todo)
     IN \E gen \in generate_insights_for_cluster(has_openai, cluster, feedback_customer) :
          /\ StoredPrefix(gen, 1) >= 1
          /\ log' = LogEntry(ThemeId(ThisRun, cluster), "flush_raised", Len(gen), 0)
  /\ session' = [NoSession EXCEPT !.ok = FALSE]
  /\ todo' = Tail(todo)
  /\ UNCHANGED <<dbVars, custVars, otherVars, dedup, pc, entry, has_openai, embedded, pre_db, seen,
                 result>>

(* the next db.flush() or db.commit() on the unusable session raises out   *)
(* of run_clustering; get_db_context rolls back and re-raises              *)
SessionUnusable ==
  /\ pc = "loop"
  /\ ~session.ok
  /\ pc' = "failed_create"
  /\ UNCHANGED <<dbVars, custVars, otherVars, dedup, runVars>>

(* db.commit() after the loop *)
CommitCreated ==
  /\ pc = "loop"
  /\ todo = <<>>
  /\ session.ok
  /\ themes' = themes \cup session.themes
  /\ feedback_themes' = feedback_themes \cup session.fts
  /\ insights' = [x \in DOMAIN insights \cup DOMAIN session.insights |->
                    IF x \in DOMAIN session.insights THEN session.insights[x]
                    ELSE insights[x]]
  /\ insight_feedback' = insight_feedback \cup session.links
  /\ session' = NoSession
  /\ pc' = "dedup"
  /\ UNCHANGED <<theme_metrics, custVars, otherVars, dedup, entry, has_openai, embedded, todo, log,
                 pre_db, seen, result>>

(* deduplicate_insights(db) inside run_clustering *)
DeduplicateRun ==
  /\ pc = "dedup"
  /\ entry # "none"
  /\ \E order \in Orders(DOMAIN insights) :
       LET d == deduplicate_insights(order, insights, insight_feedback)
       IN /\ insights' = d.insights
          /\ insight_feedback' = d.links
          /\ dedup' = DedupRecord(d)
          /\ pc' = IF d.state = "raised" THEN "failed_dedup" ELSE "metrics"
  /\ UNCHANGED <<themes, feedback_themes, theme_metrics, custVars, otherVars, runVars>>

(* calculate_theme_metrics(db): one upserted ThemeMetrics row per theme *)
CalculateMetrics ==
  /\ pc = "metrics"
  /\ theme_metrics' = themes
  /\ pc' = IF entry = "pipeline" THEN "counts" ELSE "done"
  /\ UNCHANGED <<themes, feedback_themes, insights, insight_feedback, custVars, otherVars, dedup,
                 runVars>>

(* calculate_theme_metrics raises: get_db_context rolls back and re-raises *)
MetricsRaises ==
  /\ pc = "metrics"
  /\ pc' = "failed_metrics"
  /\ UNCHANGED <<dbVars, custVars, otherVars, dedup, runVars>>

(* As mutated below the insights merged away by the deduplication are     *)
(* counted too.                                                            *)
ReturnCountsBeforeDedup ==
  /\ pc = "counts"
  /\ result' = [returned |-> TRUE, themes_created |-> Cardinality(themes),
                insights_created |-> Cardinality(DOMAIN insights)
                                       + Cardinality(dedup.to_delete)]
  /\ pc' = "done"
  /\ UNCHANGED <<dbVars, custVars, otherVars, dedup, entry, has_openai, embedded, session, todo,
                 log, pre_db, seen>>

(* run_clustering_pipeline: count the rows and return *)
ReturnCounts ==
  /\ pc = "counts"
  /\ result' = [returned |-> TRUE, themes_created |-> Cardinality(themes),
                insights_created |-> Cardinality(DOMAIN insights)]
  /\ pc' = "done"
  /\ UNCHANGED <<dbVars, custVars, otherVars, dedup, entry, has_openai, embedded, session, todo,
                 log, pre_db, seen>>

Running == pc \in {"clear", "load", "loop", "dedup", "metrics", "counts"}

(* another session reads the derived tables while the run is executing *)
ReadTables ==
  /\ Running
  /\ entry # "none"
  /\ ~seen.read
  /\ seen' = [read |-> TRUE, tables |-> Tables]
  /\ UNCHANGED <<dbVars, custVars, otherVars, dedup, pc, entry, has_openai, embedded, session, todo,
                 log, pre_db, result>>

Next ==
  \/ StartPipeline
  \/ StartTask
  \/ ClearOld
  \/ ClearFails
  \/ TooFewFeedback
  \/ ClusterFeedback
  \/ ProcessCluster
  \/ GenerationRaises
  \/ InsightFlushRaises
  \/ SessionUnusable
  \/ CommitCreated
  \/ DeduplicateRun
  \/ CalculateMetrics
  \/ MetricsRaises
  \/ ReturnCounts
  \/ ReadTables

Spec == Init /\ [][Next]_vars

(***************************************************************************)
(* Properties of a pipeline run.                                           *)
(***************************************************************************)
Failed == pc \in {"failed_clear", "failed_create", "failed_dedup", "failed_metrics"}

ThemeRun(t) == t \div 10
InsightsOfTheme(t) == {x \in DOMAIN insights : insights[x].theme_id = t}
FailedClusters == {t \in DOMAIN log : log[t].outcome # "ok"}

(* C2: when a started run fails, the derived tables are those that existed *)
(* before the run, and a run that hit a persistence or deduplication       *)
(* failure never ends as a completed run.                                  *)
C2_FailedRunKeepsPreRunRows ==
  /\ Failed => Tables = pre_db
  /\ pc = "done" =>
       /\ dedup.state # "raised"
       /\ \A t \in DOMAIN log : log[t].outcome # "flush_raised"

(* C4: after a completed run, from either entry point, the derived tables  *)
(* hold only rows of that run and no feedback item is linked to themes of  *)
(* two runs.                                                               *)
C4_OnlyRowsOfThisRun ==
  pc = "done" /\ Cardinality(embedded) >= clustering_min_feedback_count =>
    /\ \A t \in themes \cup theme_metrics : ThemeRun(t) = ThisRun
    /\ \A l \in feedback_themes : ThemeRun(l[2]) = ThisRun
    /\ \A x \in DOMAIN insights : ThemeRun(insights[x].theme_id) = ThisRun
    /\ \A l \in insight_feedback : ThemeRun(l[1] \div 10) = ThisRun
    /\ \A l1, l2 \in feedback_themes :
         l1[1] = l2[1] => ThemeRun(l1[2]) = ThemeRun(l2[2])

(* C5: a cluster whose insight synthesis or persistence failed does not    *)
(* abort the run; after the loop every cluster has its theme and feedback  *)
(* links, the other clusters have all their insights and the failing       *)
(* cluster's theme has none.                                               *)
C5_ClusterFailureIsContained ==
  FailedClusters # {} =>
    /\ pc # "failed_create"
    /\ pc = "dedup" =>
         \A t \in DOMAIN log :
           /\ t \in themes
           /\ \E l \in feedback_themes : l[2] = t
           /\ t \in FailedClusters => InsightsOfTheme(t) = {}
           /\ t \notin FailedClusters =>
                Cardinality(InsightsOfTheme(t)) = log[t].generated

(* C6: committed insights of a cluster are absent or complete: every       *)
(* Insight row has a link row for each of its supporting feedback ids, and *)
(* the rows a cluster's loop body commits are none or all of the generated *)
(* insights.                                                               *)
C6_ClusterInsightsAtomic ==
  pc = "dedup" =>
    /\ \A x \in DOMAIN insights :
         \A f \in insights[x].supporting_feedback_ids : <<x, f>> \in insight_feedback
    /\ \A t \in DOMAIN log :
         Cardinality(InsightsOfTheme(t)) \in {0, log[t].generated}

(* C7: what a reader saw while a run that completed was executing is the   *)
(* complete pre-run state or the complete post-run state.                  *)
C7_ReaderSeesPreOrPost ==
  pc = "done" /\ seen.read => seen.tables = pre_db \/ seen.tables = Tables

(***************************************************************************)
(* Starting a run over HTTP: POST /clustering/run and the trigger at the   *)
(* end of an upload, the background task they add, and the status file.    *)
(* The handlers are coroutines without an await between the status check   *)
(* and add_task; the tasks run in the thread pool after the response.      *)
(***************************************************************************)
MaxTriggers == 3

TaskIds == 1..MaxTriggers
NoResultYet == [themes_created |-> 0, insights_created |-> 0]
PipelineResults == {[themes_created |-> 0, insights_created |-> 0],
                    [themes_created |-> 2, insights_created |-> 3]}
InFlight == {"queued", "open_running", "running", "returned", "raised", "open_completed",
             "open_failed"}

(* A file json.load cannot parse holds size characters: none after         *)
(* open(STATUS_FILE, "w") truncated it, or what overlapping writes left.   *)
UnreadableFile(size) == [exists |-> TRUE, size |-> size]
Readable(file) == file.exists /\ "status" \in DOMAIN file

(* number of characters json.dump writes for the three status_data (with   *)
(* isoformat timestamps, counts below ten and the error text "error")      *)
FileSize(file) ==
  IF ~file.exists THEN 0
  ELSE IF ~Readable(file) THEN file.size
  ELSE IF file.status = "running" THEN 85
  ELSE IF file.status = "completed" THEN 134
  ELSE 105

(* the buffered text is written at position 0 when the file is closed; it  *)
(* replaces the first characters of what the file holds by then            *)
WriteFromStart(file, status_data) ==
  IF FileSize(file) > FileSize(status_data) THEN UnreadableFile(FileSize(file))
  ELSE status_data

(* get_clustering_status: the file's content, or idle when there is none   *)
(* or when it cannot be parsed                                             *)
get_clustering_status ==
  IF Readable(status_file)
  THEN [is_running |-> status_file.is_running, status |-> status_file.status]
  ELSE [is_running |-> FALSE, status |-> "idle"]

(* set_clustering_status: the status_data the file is overwritten with, in *)
(* two steps: open(STATUS_FILE, "w"), then json.dump and close             *)
set_clustering_status(is_running, status, res, error) ==
  [exists |-> TRUE, is_running |-> is_running, status |-> status,
   themes_created |-> res.themes_created, insights_created |-> res.insights_created,
   error |-> error]

add_task ==
  tasks' = Append(tasks, [pc |-> "queued", result |-> NoResultYet])

InitTrigger ==
  /\ themes = {}
  /\ feedback_themes = {}
  /\ theme_metrics = {}
  /\ insights = <<>>
  /\ insight_feedback = {}
  /\ pc = "serving"
  /\ dedup = NoDedup
  /\ entry = "none"
  /\ has_openai = FALSE
  /\ embedded = {}
  /\ feedback_customer = [f \in FeedbackIds |-> 0]
  /\ customer_acv = <<>>
  /\ session = NoSession
  /\ todo = <<>>
  /\ log = <<>>
  /\ pre_db = Tables
  /\ seen = NotSeen
  /\ result = NoResult
  /\ NoTriggers
  /\ displayed = NoDisplay
  /\ NoCalls

trigFrame ==
  UNCHANGED <<dbVars, custVars, runVars, pc, dedup, displayed, fnVars>>

(* POST /run: refused while the status says a run is in progress;         *)
(* otherwise the task is added, and the status is not written             *)
trigger_clustering ==
  /\ Len(responses) < MaxTriggers
  /\ IF get_clustering_status.is_running
     THEN /\ responses' = Append(responses, "already_running")
          /\ UNCHANGED tasks
     ELSE /\ add_task
          /\ responses' = Append(responses, "accepted")
  /\ UNCHANGED status_file
  /\ trigFrame

(* upload_feedback_files that ingested total_feedback_items items *)
upload_feedback_files ==
  /\ Len(responses) < MaxTriggers
  /\ \E total_feedback_items \in 0..1 :
       IF total_feedback_items > 0 /\ ~get_clustering_status.is_running
       THEN /\ add_task
            /\ responses' = Append(responses, "upload_triggered")
       ELSE /\ UNCHANGED tasks
            /\ responses' = Append(responses, "upload_only")
  /\ UNCHANGED status_file
  /\ trigFrame

(* open(STATUS_FILE, "w") of the set_clustering_status call the task has   *)
(* reached                                                                 *)
TaskOpenStatusFile(t) ==
  /\ tasks[t].pc \in {"queued", "returned", "raised"}
  /\ status_file' = UnreadableFile(0)
  /\ tasks' = [tasks EXCEPT ![t].pc = IF tasks[t].pc = "queued" THEN "open_running"
                                      ELSE IF tasks[t].pc = "returned" THEN "open_completed"
                                      ELSE "open_failed"]
  /\ UNCHANGED responses
  /\ trigFrame

(* run_clustering_task starts: "Mark as running" *)
TaskMarkRunning(t) ==
  /\ tasks[t].pc = "open_running"
  /\ status_file' = WriteFromStart(status_file,
                                   set_clustering_status(TRUE, "running", NoResultYet, ""))
  /\ tasks' = [tasks EXCEPT ![t].pc = "running"]
  /\ UNCHANGED responses
  /\ trigFrame

(* run_clustering_pipeline() returns its counts *)
TaskPipelineReturns(t) ==
  /\ tasks[t].pc = "running"
  /\ \E res \in PipelineResults :
       tasks' = [tasks EXCEPT ![t] = [pc |-> "returned", result |-> res]]
  /\ UNCHANGED <<status_file, responses>>
  /\ trigFrame

(* run_clustering_pipeline() raises *)
TaskPipelineRaises(t) ==
  /\ tasks[t].pc = "running"
  /\ tasks' = [tasks EXCEPT ![t].pc = "raised"]
  /\ UNCHANGED <<status_file, responses>>
  /\ trigFrame

(* "Mark as completed" *)
TaskMarkCompleted(t) ==
  /\ tasks[t].pc = "open_completed"
  /\ status_file' = WriteFromStart(status_file,
                                   set_clustering_status(FALSE, "completed", tasks[t].result, ""))
  /\ tasks' = [tasks EXCEPT ![t].pc = "ended"]
  /\ UNCHANGED responses
  /\ trigFrame

(* "Mark as failed", and the exception is raised again *)
TaskMarkFailed(t) ==
  /\ tasks[t].pc = "open_failed"
  /\ status_file' = WriteFromStart(status_file,
                                   set_clustering_status(FALSE, "failed", NoResultYet, "error"))
  /\ tasks' = [tasks EXCEPT ![t].pc = "ended_raising"]
  /\ UNCHANGED responses
  /\ trigFrame

NextTrigger ==
  \/ trigger_clustering
  \/ upload_feedback_files
  \/ \E t \in DOMAIN tasks : TaskOpenStatusFile(t)
  \/ \E t \in DOMAIN tasks : TaskMarkRunning(t)
  \/ \E t \in DOMAIN tasks : TaskPipelineReturns(t)
  \/ \E t \in DOMAIN tasks : TaskPipelineRaises(t)
  \/ \E t \in DOMAIN tasks : TaskMarkCompleted(t)
  \/ \E t \in DOMAIN tasks : TaskMarkFailed(t)

SpecTrigger == InitTrigger /\ [][NextTrigger]_vars

RunsInFlight == {t \in DOMAIN tasks : tasks[t].pc \in InFlight}

(* C3: at most one clustering run is in flight at any time, a run counting *)
(* from the moment its trigger was accepted, before is_running is written, *)
(* until its task has written the final status.                            *)
C3_AtMostOneRunInFlight ==
  Cardinality(RunsInFlight) <= 1

(***************************************************************************)
(* Showing an insight: the list and the detail handler, over an insight    *)
(* the pipeline created, while Customer and Feedback rows change.          *)
(***************************************************************************)
NumCustomers == 2

Customers == 1..NumCustomers
AcvValues == {50, 100}
DisplayClusters == {{1}, {1, 2}, {3, 4}, {2, 3, 4}}

RECURSIVE SumAcv(_)
SumAcv(S) ==
  IF S = {} THEN 0
  ELSE LET c == CHOOSE c \in S : TRUE IN c.acv + SumAcv(S \ {c})

(* customers and total_acv of one insight, as both handlers compute them:  *)
(* the stored list when it is truthy, otherwise the join over the          *)
(* insight's feedback links                                                *)
CustomersOfInsight(x) ==
  IF insights[x].affected_customers # {}
  THEN [customers |-> insights[x].affected_customers,
        total_acv |-> SumAcv(insights[x].affected_customers)]
  ELSE LET customer_ids_subq ==
             {feedback_customer[l[2]] : l \in {m \in insight_feedback : m[1] = x}} \ {0}
           customers_data == {[id |-> c, acv |-> customer_acv[c]] : c \in customer_ids_subq}
       IN [customers |-> customers_data, total_acv |-> SumAcv(customers_data)]

InitDisplay ==
  /\ feedback_customer \in [FeedbackIds -> {0} \cup Customers]
  /\ customer_acv \in [Customers -> AcvValues]
  /\ \E cluster \in DisplayClusters :
       LET rows == ClusterRows(ThisRun, cluster,
                               _generate_simple_insight(cluster, feedback_customer, "export"),
                               1, feedback_customer, customer_acv)
       IN /\ themes = rows.themes
          /\ feedback_themes = rows.fts
          /\ theme_metrics = rows.themes
          /\ insights = rows.insights
          /\ insight_feedback = rows.links
  /\ pc = "serving"
  /\ dedup = NoDedup
  /\ entry = "none"
  /\ has_openai = FALSE
  /\ embedded = FeedbackIds
  /\ session = NoSession
  /\ todo = <<>>
  /\ log = <<>>
  /\ pre_db = Tables
  /\ seen = NotSeen
  /\ result = NoResult
  /\ NoTriggers
  /\ displayed = NoDisplay
  /\ NoCalls

(* GET /themes/insights: every insight's customers and total ACV *)
list_insights ==
  /\ displayed' = [x \in DOMAIN insights |-> CustomersOfInsight(x)]
  /\ UNCHANGED <<dbVars, custVars, runVars, pc, dedup, trigVars, fnVars>>

(* GET /themes/insights/{id} *)
get_insight ==
  /\ \E x \in DOMAIN insights :
       displayed' = [y \in DOMAIN displayed \cup {x} |->
                       IF y = x THEN CustomersOfInsight(x) ELSE displayed[y]]
  /\ UNCHANGED <<dbVars, custVars, runVars, pc, dedup, trigVars, fnVars>>

(* a Customer row's acv is changed *)
ChangeAcv ==
  /\ \E c \in Customers, v \in AcvValues :
       /\ customer_acv[c] # v
       /\ customer_acv' = [customer_acv EXCEPT ![c] = v]
  /\ UNCHANGED <<dbVars, feedback_customer, runVars, pc, dedup, trigVars, displayed, fnVars>>

(* a Feedback row without a customer gets one *)
LinkCustomer ==
  /\ \E f \in FeedbackIds, c \in Customers :
       /\ feedback_customer[f] = 0
       /\ feedback_customer' = [feedback_customer EXCEPT ![f] = c]
  /\ UNCHANGED <<dbVars, customer_acv, runVars, pc, dedup, trigVars, displayed, fnVars>>

NextDisplay ==
  \/ list_insights
  \/ get_insight
  \/ ChangeAcv
  \/ LinkCustomer

SpecDisplay == InitDisplay /\ [][NextDisplay]_vars

(* C8: the customers and the total ACV shown for an insight are those of   *)
(* the affected_customers list stored when the insight was created,        *)
(* whatever that list holds and whatever changed in Customer and Feedback  *)
(* rows since.                                                             *)
C8_DisplayIsSnapshot ==
  \A x \in DOMAIN displayed :
    /\ displayed[x].customers = insights[x].affected_customers
    /\ displayed[x].total_acv = SumAcv(insights[x].affected_customers)

(***************************************************************************)
(* packages/shared/scoring.py.  Scores are floats in the code; here they   *)
(* are integers in thousandths (Scale), except the ACV amounts, which keep *)
(* the one floating-point effect the code depends on: 1 + acv_sum.         *)
(***************************************************************************)
Scale == 1000
MaxCount == 2

Clamp(lo, hi, x) == Max2(lo, Min2(hi, x))

(* normalize_min_max *)
normalize_min_max(value, min_val, max_val) ==
  IF max_val = min_val THEN 0
  ELSE Clamp(0, Scale, ((value - min_val) * Scale) \div (max_val - min_val))

(* calculate_frequency_norm: 0.7 * norm_30d + 0.3 * norm_90d *)
calculate_frequency_norm(count_30d, count_90d, max_count_30d, max_count_90d) ==
  LET norm_30d == normalize_min_max(count_30d, 0, Max2(max_count_30d, 1))
      norm_90d == normalize_min_max(count_90d, 0, Max2(max_count_90d, 1))
  IN (7 * norm_30d + 3 * norm_90d) \div 10

(* ACV amounts m * 2^e, in increasing order: 0, 2^-60, 1, 3 *)
AcvAmounts == <<[m |-> 0, e |-> 0], [m |-> 1, e |-> -60], [m |-> 1, e |-> 0],
                [m |-> 3, e |-> 0]>>

(* 1 + x in double precision: an x below 2^-53 is absorbed, the small      *)
(* whole amounts are exact                                                 *)
OnePlus(x) == IF x.m = 0 \/ x.e < -53 THEN 1 ELSE 1 + x.m * 2^x.e

(* math.log of 1, 2, 3, 4, in thousandths *)
LogMilli == <<0, 693, 1099, 1386>>

(* calculate_acv_norm: the quotient of the two logarithms, not clamped;    *)
(* float division by 0.0 raises                                            *)
calculate_acv_norm(acv_sum, max_acv_sum) ==
  IF max_acv_sum.m <= 0 THEN [raised |-> FALSE, value |-> 0]
  ELSE LET num == LogMilli[OnePlus(acv_sum)]
           den == LogMilli[OnePlus(max_acv_sum)]
       IN IF den = 0 THEN [raised |-> TRUE, value |-> 0]
          ELSE [raised |-> FALSE, value |-> (num * Scale) \div den]

(* calculate_sentiment_lift *)
calculate_sentiment_lift(avg_sentiment) ==
  Clamp(0, Scale, (Scale - avg_sentiment) \div 2)

SegmentPriorities == [ENT |-> 1000, MM |-> 700, SMB |-> 500]

(* calculate_segment_priority *)
calculate_segment_priority(segment_counts, priorities) ==
  LET total_count == segment_counts.ENT + segment_counts.MM + segment_counts.SMB
      weighted_sum == segment_counts.ENT * priorities.ENT
                      + segment_counts.MM * priorities.MM
                      + segment_counts.SMB * priorities.SMB
  IN IF total_count = 0 THEN 0 ELSE weighted_sum \div total_count

RECURSIVE SumSeq(_)
SumSeq(w) == IF w = <<>> THEN 0 ELSE Head(w) + SumSeq(Tail(w))

(* calculate_trend_momentum: least-squares slope over x = 0..n-1, divided  *)
(* by 20 and clamped to [-0.5, 0.5]; numerator and denominator are both    *)
(* taken times n * n, which leaves the slope as it is                      *)
calculate_trend_momentum(weekly_counts) ==
  LET n == Len(weekly_counts)
      x_vals == [i \in 1..n |-> i - 1]
      sum_x == SumSeq(x_vals)
      sum_y == SumSeq(weekly_counts)
      numerator ==
        SumSeq([i \in 1..n |-> (n * x_vals[i] - sum_x) * (n * weekly_counts[i] - sum_y)])
      denominator == SumSeq([i \in 1..n |-> (n * x_vals[i] - sum_x) * (n * x_vals[i] - sum_x)])
  IN IF n < 2 THEN 0
     ELSE IF denominator = 0 THEN 0
     ELSE Clamp(-(Scale \div 2), Scale \div 2, (numerator * Scale) \div (denominator * 20))

(* calculate_dup_penalty *)
calculate_dup_penalty(similarity_to_higher_scored) ==
  IF similarity_to_higher_scored * 100 > 85 * Scale
  THEN similarity_to_higher_scored \div 2
  ELSE 0

ScoreWeights ==
  [frequency |-> 350, acv |-> 300, sentiment |-> 100, segment |-> 150, trend |-> 100,
   duplicate |-> 100]

(* calculate_theme_score: the six components, the weighted sum, the clamp  *)
calculate_theme_score(a) ==
  LET f_norm == calculate_frequency_norm(a.freq_30d, a.freq_90d, a.max_freq_30d,
                                         a.max_freq_90d)
      acv_norm == calculate_acv_norm(AcvAmounts[a.acv_sum], AcvAmounts[a.max_acv_sum])
      sent_lift == calculate_sentiment_lift(a.avg_sentiment)
      seg_priority == calculate_segment_priority(a.segment_counts, SegmentPriorities)
      trend == calculate_trend_momentum(a.weekly_counts)
      dup_penalty == calculate_dup_penalty(a.similarity_to_higher)
      final_score == (a.weights.frequency * f_norm
                      + a.weights.acv * acv_norm.value
                      + a.weights.sentiment * sent_lift
                      + a.weights.segment * seg_priority
                      + a.weights.trend * trend
                      - a.weights.duplicate * dup_penalty) \div Scale
  IN IF acv_norm.raised
     THEN [fn |-> "calculate_theme_score", raised |-> TRUE]
     ELSE [fn |-> "calculate_theme_score", raised |-> FALSE,
           frequency_norm |-> f_norm, acv_norm |-> acv_norm.value,
           sentiment_lift |-> sent_lift, segment_priority |-> seg_priority,
           trend_momentum |-> trend, dup_penalty |-> dup_penalty,
           final_score |-> Clamp(0, Scale, final_score)]

(***************************************************************************)
(* SpecFn: one call of calculate_theme_score, or one computation of an     *)
(* insight's priority_score, on arguments drawn from small sets.           *)
(***************************************************************************)
WeightsPool ==
  {ScoreWeights,
   [frequency |-> 2000, acv |-> 2000, sentiment |-> 2000, segment |-> 2000,
    trend |-> 2000, duplicate |-> 0],
   [frequency |-> -1000, acv |-> 0, sentiment |-> 0, segment |-> 0, trend |-> 1000,
    duplicate |-> 1000]}
WeeklyCountsPool == {<<>>, <<0, 400>>, <<5, 1, 0>>}
SentimentPool == {-Scale, -200, Scale}
SegmentCountsPool == {[ENT |-> 0, MM |-> 0, SMB |-> 0], [ENT |-> 5, MM |-> 3, SMB |-> 2]}
SimilarityPool == {0, 900}

ThemeScoreCalls ==
  [fn : {"calculate_theme_score"},
   freq_30d : 0..MaxCount, freq_90d : 0..MaxCount,
   max_freq_30d : 0..MaxCount, max_freq_90d : 0..MaxCount,
   acv_sum : DOMAIN AcvAmounts, max_acv_sum : DOMAIN AcvAmounts,
   avg_sentiment : SentimentPool, segment_counts : SegmentCountsPool,
   weekly_counts : WeeklyCountsPool, similarity_to_higher : SimilarityPool,
   weights : WeightsPool]

PriorityCalls ==
  [fn : {"priority_score"}, severity : DOMAIN SeverityScores, effort : DOMAIN EffortScores]

InitFn ==
  /\ themes = {}
  /\ feedback_themes = {}
  /\ theme_metrics = {}
  /\ insights = <<>>
  /\ insight_feedback = {}
  /\ pc = "call"
  /\ dedup = NoDedup
  /\ entry = "none"
  /\ has_openai = FALSE
  /\ embedded = {}
  /\ feedback_customer = [f \in FeedbackIds |-> 0]
  /\ customer_acv = <<>>
  /\ session = NoSession
  /\ todo = <<>>
  /\ log = <<>>
  /\ pre_db = Tables
  /\ seen = NotSeen
  /\ result = NoResult
  /\ NoTriggers
  /\ displayed = NoDisplay
  /\ \/ fn_in \in {a \in ThemeScoreCalls : a.acv_sum <= a.max_acv_sum}
     \/ fn_in \in PriorityCalls
  /\ fn_out = NoCall

fnFrame ==
  UNCHANGED <<dbVars, custVars, runVars, dedup, trigVars, displayed, fn_in>>

CallThemeScore ==
  /\ pc = "call"
  /\ fn_in.fn = "calculate_theme_score"
  /\ fn_out' = calculate_theme_score(fn_in)
  /\ pc' = "called"
  /\ fnFrame

(* run_clustering, lines 195-199: the score stored on the Insight *)
ComputePriority ==
  /\ pc = "call"
  /\ fn_in.fn = "priority_score"
  /\ fn_out' = [fn |-> "priority_score", value |-> priority_score(fn_in.severity, fn_in.effort)]
  /\ pc' = "called"
  /\ fnFrame

NextFn ==
  \/ CallThemeScore
  \/ ComputePriority

SpecFn == InitFn /\ [][NextFn]_vars

InUnit(x) == 0 <= x /\ x <= Scale

(* C9: for non-negative counts, 0 <= acv_sum <= max_acv_sum and sentiment  *)
(* in [-1, 1], with any weights and weekly counts, calculate_theme_score   *)
(* returns, and frequency_norm, acv_norm, sentiment_lift and final_score   *)
(* are each within [0, 1].                                                 *)
C9_ScoreComponentsInUnitInterval ==
  fn_out.fn = "calculate_theme_score" =>
    /\ ~fn_out.raised
    /\ InUnit(fn_out.frequency_norm)
    /\ InUnit(fn_out.acv_norm)
    /\ InUnit(fn_out.sentiment_lift)
    /\ InUnit(fn_out.final_score)

(* Python's round() of total / 2: to the nearest integer, a half to the    *)
(* even neighbour                                                          *)
RoundHalf(total) ==
  LET half == total \div 2
  IN IF total % 2 = 0 THEN half ELSE IF half % 2 = 0 THEN half ELSE half + 1

ClaimedSeverity == [low |-> 25, medium |-> 50, high |-> 75, critical |-> 100]
ClaimedEffort == [low |-> 75, medium |-> 50, high |-> 25]
PriorityComputed == fn_out.fn = "priority_score"

LowerLetters == <<"a", "b", "c", "d", "e", "f", "g", "h", "i", "j", "k", "l", "m", "n", "o", "p", "q", "r", "s", "t", "u", "v", "w", "x", "y", "z">>
UpperLetters == <<"A", "B", "C", "D", "E", "F", "G", "H", "I", "J", "K", "L", "M", "N", "O", "P", "Q", "R", "S", "T", "U", "V", "W", "X", "Y", "Z">>
Digits == {"0", "1", "2", "3", "4", "5", "6", "7", "8", "9"}

IndexIn(letters, c) == CHOOSE i \in 1..Len(letters) : letters[i] = c
IsUpperChar(c) == \E i \in 1..Len(UpperLetters) : UpperLetters[i] = c
IsLowerChar(c) == \E i \in 1..Len(LowerLetters) : LowerLetters[i] = c
IsAlphaChar(c) == IsUpperChar(c) \/ IsLowerChar(c)
ToLowerChar(c) == IF IsUpperChar(c) THEN LowerLetters[IndexIn(UpperLetters, c)] ELSE c
ToUpperChar(c) == IF IsLowerChar(c) THEN UpperLetters[IndexIn(LowerLetters, c)] ELSE c

(* str.lower() *)
StrLower(s) == [i \in 1..Len(s) |-> ToLowerChar(s[i])]

(* str.title(): a letter after a non-letter is upper case, any other lower *)
StrTitle(s) ==
  [i \in 1..Len(s) |->
     IF i = 1 \/ ~IsAlphaChar(s[i - 1]) THEN ToUpperChar(s[i]) ELSE ToLowerChar(s[i])]

(* str.isdigit() *)
StrIsDigit(s) == s # <<>> /\ \A i \in 1..Len(s) : s[i] \in Digits

(* str.strip() *)
RECURSIVE StrStrip(_)
StrStrip(s) ==
  IF s = <<>> THEN s
  ELSE IF Head(s) = " " THEN StrStrip(Tail(s))
  ELSE IF s[Len(s)] = " " THEN StrStrip(SubSeq(s, 1, Len(s) - 1))
  ELSE s

(* str.split(sep) for a one-character sep: the pieces, empty ones kept *)
RECURSIVE SplitAt(_, _, _)
SplitAt(s, sep, piece) ==
  IF s = <<>> THEN <<piece>>
  ELSE IF Head(s) = sep THEN <<piece>> \o SplitAt(Tail(s), sep, <<>>)
  ELSE SplitAt(Tail(s), sep, Append(piece, Head(s)))

(* str.split(): the words between runs of blanks *)
StrSplit(s) == SelectSeq(SplitAt(s, " ", <<>>), LAMBDA w : w # <<>>)

(* sep.join(parts) *)
RECURSIVE StrJoin(_, _)
StrJoin(sep, parts) ==
  IF parts = <<>> THEN <<>>
  ELSE IF Len(parts) = 1 THEN parts[1]
  ELSE parts[1] \o sep \o StrJoin(sep, Tail(parts))

(* needle in haystack, for strings *)
StrContains(haystack, needle) ==
  \E i \in 1..(Len(haystack) - Len(needle) + 1) :
    SubSeq(haystack, i, i + Len(needle) - 1) = needle

InSeq(x, seq) == \E i \in 1..Len(seq) : seq[i] = x
Take(seq, n) == SubSeq(seq, 1, Min2(n, Len(seq)))

(* the word lists of _filter_names_from_keywords *)
company_suffixes ==
  {<<"l", "l", "c">>,
   <<"i", "n", "c">>,
   <<"c", "o", "r", "p">>,
   <<"l", "t", "d">>,
   <<"c", "o">>,
   <<"c", "o", "m", "p", "a", "n", "y">>,
   <<"i", "n", "d", "u", "s", "t", "r", "i", "e", "s">>,
   <<"s", "o", "l", "u", "t", "i", "o", "n", "s">>}

keep_terms ==
  {<<"a", "p", "i">>,
   <<"s", "s", "o">>,
   <<"s", "a", "m", "l">>,
   <<"o", "a", "u", "t", "h">>,
   <<"a", "u", "t", "h">>,
   <<"l", "o", "g", "i", "n">>,
   <<"s", "e", "c", "u", "r", "i", "t", "y">>,
   <<"e", "x", "p", "o", "r", "t">>,
   <<"i", "m", "p", "o", "r", "t">>,
   <<"c", "s", "v">>,
   <<"e", "x", "c", "e", "l">>,
   <<"p", "d", "f">>,
   <<"m", "o", "b", "i", "l", "e">>,
   <<"d", "a", "s", "h", "b", "o", "a", "r", "d">>,
   <<"a", "n", "a", "l", "y", "t", "i", "c", "s">>,
   <<"r", "e", "p", "o", "r", "t", "i", "n", "g">>,
   <<"s", "e", "a", "r", "c", "h">>,
   <<"f", "i", "l", "t", "e", "r">>,
   <<"w", "e", "b", "h", "o", "o", "k">>,
   <<"i", "n", "t", "e", "g", "r", "a", "t", "i", "o", "n">>,
   <<"d", "a", "t", "a">>,
   <<"u", "s", "e", "r">>,
   <<"a", "d", "m", "i", "n">>,
   <<"a", "c", "c", "e", "s", "s">>,
   <<"p", "e", "r", "m", "i", "s", "s", "i", "o", "n", "s">>,
   <<"d", "a", "r", "k", " ", "m", "o", "d", "e">>,
   <<"t", "h", "e", "m", "e">>,
   <<"u", "i">>,
   <<"u", "x">>,
   <<"d", "e", "s", "i", "g", "n">>,
   <<"p", "e", "r", "f", "o", "r", "m", "a", "n", "c", "e">>,
   <<"l", "o", "a", "d", "i", "n", "g">>,
   <<"s", "p", "e", "e", "d">>,
   <<"e", "r", "r", "o", "r">>,
   <<"h", "a", "n", "d", "l", "i", "n", "g">>,
   <<"b", "a", "t", "c", "h">>,
   <<"o", "p", "e", "r", "a", "t", "i", "o", "n", "s">>,
   <<"c", "o", "m", "p", "l", "i", "a", "n", "c", "e">>,
   <<"r", "e", "q", "u", "i", "r", "e", "m", "e", "n", "t", "s">>,
   <<"f", "i", "l", "e">>,
   <<"u", "p", "l", "o", "a", "d">>,
   <<"d", "o", "w", "n", "l", "o", "a", "d">>,
   <<"t", "i", "m", "e", "o", "u", "t">>,
   <<"l", "i", "m", "i", "t">>,
   <<"s", "i", "z", "e">>,
   <<"f", "o", "r", "m", "a", "t">>,
   <<"v", "a", "l", "i", "d", "a", "t", "i", "o", "n">>,
   <<"n", "o", "t", "i", "f", "i", "c", "a", "t", "i", "o", "n">>,
   <<"e", "m", "a", "i", "l">>,
   <<"s", "y", "n", "c">>,
   <<"b", "a", "c", "k", "u", "p">>,
   <<"r", "e", "s", "t", "o", "r", "e">>,
   <<"a", "r", "c", "h", "i", "v", "e">>,
   <<"d", "e", "l", "e", "t", "e">>,
   <<"e", "d", "i", "t">>,
   <<"c", "r", "e", "a", "t", "e">>,
   <<"u", "p", "d", "a", "t", "e">>,
   <<"v", "i", "e", "w">>,
   <<"l", "i", "s", "t">>,
   <<"d", "e", "t", "a", "i", "l">>,
   <<"s", "u", "m", "m", "a", "r", "y">>,
   <<"o", "v", "e", "r", "v", "i", "e", "w">>,
   <<"s", "e", "t", "t", "i", "n", "g", "s">>,
   <<"c", "o", "n", "f", "i", "g", "u", "r", "a", "t", "i", "o", "n">>,
   <<"s", "e", "t", "u", "p">>,
   <<"d", "e", "v", "i", "c", "e", "s">>,
   <<"p", "r", "o", "v", "i", "d", "e", "r", "s">>,
   <<"r", "e", "g", "i", "s", "t", "r", "a", "t", "i", "o", "n">>,
   <<"d", "e", "l", "i", "v", "e", "r", "y">>,
   <<"p", "l", "a", "n">>,
   <<"u", "p", "g", "r", "a", "d", "e", "s">>,
   <<"s", "e", "g", "m", "e", "n", "t">>,
   <<"a", "n", "a", "l", "y", "s", "i", "s">>,
   <<"t", "o", "o", "l">>,
   <<"m", "a", "x", "e", "s">>,
   <<"p", "r", "i", "o", "r", "i", "t", "i", "e", "s">>,
   <<"i", "m", "p", "l", "e", "m", "e", "n", "t">>,
   <<"n", "e", "e", "d">>,
   <<"v", "i", "s", "i", "b", "i", "l", "i", "t", "y">>,
   <<"u", "s", "a", "g", "e">>,
   <<"f", "a", "i", "l", "i", "n", "g">>,
   <<"o", "p", "t", "i", "m", "i", "z", "e">>,
   <<"i", "n", "c", "r", "e", "a", "s", "e">>,
   <<"s", "m", "a", "l", "l">>,
   <<"l", "i", "k", "e">>,
   <<"o", "k", "t", "a">>,
   <<"i", "d", "e", "n", "t", "i", "t", "y">>,
   <<"q", "1">>,
   <<"q", "2">>,
   <<"q", "3">>,
   <<"q", "4">>,
   <<"d", "i", "r", "e", "c", "t">>,
   <<"e", "x", "p", "o", "r", "t", "s">>,
   <<"u", "s", "e", "r", "s">>,
   <<"c", "h", "a", "n", "g">>,
   <<"r", "o", "b", "e", "r", "t">>}

common_names ==
  {<<"n", "g", "u", "y", "e", "n">>,
   <<"r", "o", "b", "e", "r", "t">>,
   <<"c", "h", "a", "n", "g">>,
   <<"t", "e", "c", "h", "f", "l", "o", "w">>,
   <<"s", "m", "a", "l", "l", "b", "i", "z">>,
   <<"r", "i", "v", "e", "r", "a">>,
   <<"s", "m", "i", "t", "h">>,
   <<"j", "o", "h", "n", "s", "o", "n">>,
   <<"w", "i", "l", "l", "i", "a", "m", "s">>,
   <<"b", "r", "o", "w", "n">>,
   <<"j", "o", "n", "e", "s">>,
   <<"g", "a", "r", "c", "i", "a">>,
   <<"m", "i", "l", "l", "e", "r">>,
   <<"d", "a", "v", "i", "s">>,
   <<"r", "o", "d", "r", "i", "g", "u", "e", "z">>,
   <<"m", "a", "r", "t", "i", "n", "e", "z">>,
   <<"h", "e", "r", "n", "a", "n", "d", "e", "z">>,
   <<"l", "o", "p", "e", "z">>,
   <<"g", "o", "n", "z", "a", "l", "e", "z">>,
   <<"w", "i", "l", "s", "o", "n">>,
   <<"a", "n", "d", "e", "r", "s", "o", "n">>,
   <<"t", "h", "o", "m", "a", "s">>,
   <<"t", "a", "y", "l", "o", "r">>,
   <<"m", "o", "o", "r", "e">>,
   <<"j", "a", "c", "k", "s", "o", "n">>,
   <<"m", "a", "r", "t", "i", "n">>,
   <<"l", "e", "e">>,
   <<"p", "e", "r", "e", "z">>,
   <<"t", "h", "o", "m", "p", "s", "o", "n">>,
   <<"w", "h", "i", "t", "e">>,
   <<"h", "a", "r", "r", "i", "s">>,
   <<"k", "i", "m">>,
   <<"c", "h", "e", "n">>,
   <<"w", "a", "n", "g">>,
   <<"l", "i", "u">>,
   <<"s", "i", "n", "g", "h">>,
   <<"k", "u", "m", "a", "r">>,
   <<"p", "a", "t", "e", "l">>}

generic_words ==
  {<<"y", "e", "s">>,
   <<"n", "o">>,
   <<"w", "e", "e", "k", "s">>,
   <<"d", "a", "y", "s">>,
   <<"m", "o", "n", "t", "h", "s">>,
   <<"y", "e", "a", "r", "s">>,
   <<"c", "o", "n", "c", "e", "r", "n">>,
   <<"m", "i", "l", "l", "i", "o", "n">>,
   <<"w", "o", "r", "k", "s">>,
   <<"s", "a", "y", "s">>,
   <<"t", "o", "l", "d">>,
   <<"a", "s", "k", "e", "d">>,
   <<"m", "e", "n", "t", "i", "o", "n", "e", "d">>,
   <<"d", "i", "s", "c", "u", "s", "s", "e", "d">>,
   <<"s", "c", "r", "e", "e", "n", "s">>,
   <<"w", "i", "d", "e">>,
   <<"l", "a", "r", "g", "e">>,
   <<"s", "m", "a", "l", "l">>,
   <<"m", "e", "d", "i", "u", "m">>,
   <<"b", "i", "g">>,
   <<"t", "h", "i", "n", "g">>,
   <<"t", "h", "i", "n", "g", "s">>,
   <<"s", "t", "u", "f", "f">>,
   <<"w", "a", "y">>,
   <<"w", "a", "y", "s">>}

(* One keyword of the loop: the reconstructed keyword, or nothing when the   *)
(* keyword is skipped.  kw[0].isupper() is asked of the keyword as given.   *)
FilteredWords(kw, words) ==
  SelectSeq(words, LAMBDA word :
    /\ word \notin common_names
    /\ word \notin generic_words
    /\ ~StrIsDigit(word)
    /\ ~(Len(words) = 1 /\ IsUpperChar(kw[1]) /\ word \notin keep_terms))

FilterKeyword(kw) ==
  LET kw_lower == StrStrip(StrLower(kw))
      words == StrSplit(kw_lower)
      filtered_words == FilteredWords(kw, words)
      reconstructed == StrTitle(StrJoin(<<" ">>, filtered_words))
  IN  IF kw_lower = <<>> THEN <<>>
      ELSE IF \E suffix \in company_suffixes : InSeq(suffix, words) THEN <<>>
      ELSE IF filtered_words = <<>> THEN <<>>
      ELSE IF Len(reconstructed) > 2 /\ ~StrIsDigit(reconstructed) THEN <<reconstructed>>
      ELSE <<>>

RECURSIVE _filter_names_from_keywords(_)
_filter_names_from_keywords(keywords) ==
  IF keywords = <<>> THEN <<>>
  ELSE FilterKeyword(Head(keywords)) \o _filter_names_from_keywords(Tail(keywords))

FeatureRequest == <<"F", "e", "a", "t", "u", "r", "e", " ", "R", "e", "q", "u", "e", "s", "t">>
UnlabeledTheme == <<"U", "n", "l", "a", "b", "e", "l", "e", "d", " ", "T", "h", "e", "m", "e">>

(* _generate_label, given what the keyword extractor did: it raised, or it   *)
(* returned a list of keyphrases (the scores are dropped by the code).       *)
_generate_label(extractor) ==
  IF extractor.raises THEN UnlabeledTheme
  ELSE IF extractor.keywords = <<>> THEN UnlabeledTheme
  ELSE IF _filter_names_from_keywords(extractor.keywords) = <<>> THEN FeatureRequest
  ELSE StrTitle(StrJoin(<<",", " ">>, Take(_filter_names_from_keywords(extractor.keywords), 3)))

(* Keyphrases (1 to 3 words) an extractor can propose for texts such as      *)
(* "Acme Corp LLC needs SSO login" and "Smith says export takes 60 days".    *)
MaxKeywords == 2
AcmeCorpLlc == <<"A", "c", "m", "e", " ", "C", "o", "r", "p", " ", "L", "L", "C">>
Acme == <<"A", "c", "m", "e">>
Smith == <<"S", "m", "i", "t", "h">>
KeyphrasePool ==
  {AcmeCorpLlc, StrLower(AcmeCorpLlc), Acme, StrLower(Acme), <<"a", "c", "m", "e", " ", "l", "o", "g", "i", "n">>,
   <<"s", "s", "o", " ", "l", "o", "g", "i", "n">>, <<"s", "m", "i", "t", "h", " ", "e", "x", "p", "o", "r", "t">>, <<"6", "0", " ", "d", "a", "y", "s">>, <<"u", "i">>}
KeywordLists == UNION {[1..n -> KeyphrasePool] : n \in 0..MaxKeywords}
ExtractorOutcomes ==
  {[raises |-> TRUE, keywords |-> <<>>]} \cup
  {[raises |-> FALSE, keywords |-> kws] : kws \in KeywordLists}
GenerateLabelCalls == {[fn |-> "_generate_label", extractor |-> x] : x \in ExtractorOutcomes}

(* The keywords of a label: its comma-separated parts *)
LabelKeywords(label) ==
  {StrStrip(SplitAt(label, ",", <<>>)[i]) : i \in 1..Len(SplitAt(label, ",", <<>>))}

(* _generate_actionable_title_fallback: the label's keywords are filtered   *)
(* again, the first two joined, and a template chosen by substring tests.   *)
TitleTemplates ==
  <<[words |-> {<<"s", "s", "o">>, <<"s", "a", "m", "l">>, <<"a", "u", "t", "h">>, <<"l", "o", "g", "i", "n">>, <<"s", "e", "c", "u", "r", "i", "t", "y">>},
     suffix |-> <<" ", "b", "l", "o", "c", "k", "s", " ", "e", "n", "t", "e", "r", "p", "r", "i", "s", "e", " ", "d", "e", "a", "l", "s">>],
    [words |-> {<<"e", "x", "p", "o", "r", "t">>, <<"i", "m", "p", "o", "r", "t">>, <<"c", "s", "v">>, <<"e", "x", "c", "e", "l">>, <<"p", "d", "f">>},
     suffix |-> <<" ", "a", "f", "f", "e", "c", "t", "s", " ", "w", "o", "r", "k", "f", "l", "o", "w", "s">>],
    [words |-> {<<"m", "o", "b", "i", "l", "e">>, <<"c", "r", "a", "s", "h">>, <<"r", "e", "s", "p", "o", "n", "s", "i", "v", "e">>, <<"t", "a", "b", "l", "e", "t">>},
     suffix |-> <<" ", "i", "m", "p", "a", "c", "t", "s", " ", "m", "o", "b", "i", "l", "e", " ", "u", "s", "e", "r", "s">>],
    [words |-> {<<"s", "e", "a", "r", "c", "h">>, <<"f", "i", "l", "t", "e", "r">>, <<"q", "u", "e", "r", "y">>, <<"f", "i", "n", "d">>},
     suffix |-> <<" ", "n", "e", "e", "d", "s", " ", "i", "m", "p", "r", "o", "v", "e", "m", "e", "n", "t">>],
    [words |-> {<<"d", "a", "r", "k", " ", "m", "o", "d", "e">>, <<"t", "h", "e", "m", "e">>, <<"u", "i">>, <<"d", "e", "s", "i", "g", "n">>},
     suffix |-> <<" ", "f", "r", "e", "q", "u", "e", "n", "t", "l", "y", " ", "r", "e", "q", "u", "e", "s", "t", "e", "d">>],
    [words |-> {<<"a", "p", "i">>, <<"w", "e", "b", "h", "o", "o", "k">>, <<"i", "n", "t", "e", "g", "r", "a", "t", "i", "o", "n">>},
     suffix |-> <<" ", "i", "n", " ", "h", "i", "g", "h", " ", "d", "e", "m", "a", "n", "d">>],
    [words |-> {<<"p", "e", "r", "f", "o", "r", "m", "a", "n", "c", "e">>, <<"s", "l", "o", "w">>, <<"l", "o", "a", "d", "i", "n", "g">>, <<"s", "p", "e", "e", "d">>},
     suffix |-> <<" ", "f", "r", "u", "s", "t", "r", "a", "t", "e", "s", " ", "u", "s", "e", "r", "s">>],
    [words |-> {<<"d", "a", "s", "h", "b", "o", "a", "r", "d">>, <<"a", "n", "a", "l", "y", "t", "i", "c", "s">>, <<"r", "e", "p", "o", "r", "t", "i", "n", "g">>},
     suffix |-> <<" ", "n", "e", "e", "d", "s", " ", "o", "p", "t", "i", "m", "i", "z", "a", "t", "i", "o", "n">>]>>
NeedsAttention == <<" ", "n", "e", "e", "d", "s", " ", "a", "t", "t", "e", "n", "t", "i", "o", "n">>

TemplateSuffix(label_lower) ==
  IF \E i \in 1..Len(TitleTemplates) :
       \E word \in TitleTemplates[i].words : StrContains(label_lower, word)
  THEN TitleTemplates[CHOOSE i \in 1..Len(TitleTemplates) :
         /\ \E word \in TitleTemplates[i].words : StrContains(label_lower, word)
         /\ \A j \in 1..(i - 1) :
              ~\E word \in TitleTemplates[j].words : StrContains(label_lower, word)].suffix
  ELSE NeedsAttention

StripAll(parts) == [i \in 1..Len(parts) |-> StrStrip(parts[i])]

MainKeywords(label) ==
  IF _filter_names_from_keywords(StripAll(SplitAt(label, ",", <<>>))) = <<>>
  THEN <<FeatureRequest>>
  ELSE Take(_filter_names_from_keywords(StripAll(SplitAt(label, ",", <<>>))), 2)

_generate_actionable_title_fallback(label) ==
  StrTitle(StrJoin(<<" ", "&", " ">>, MainKeywords(label))) \o TemplateSuffix(StrLower(label))

(* str.strip(chars) *)
RECURSIVE StrStripChars(_, _)
StrStripChars(s, chars) ==
  IF s = <<>> THEN s
  ELSE IF Head(s) \in chars THEN StrStripChars(Tail(s), chars)
  ELSE IF s[Len(s)] \in chars THEN StrStripChars(SubSeq(s, 1, Len(s) - 1), chars)
  ELSE s

(* What the text-generation collaborator does with one request: it raises,  *)
(* or it answers with some text.                                            *)
Raises == [kind |-> "raises"]
Answers(content) == [kind |-> "content", content |-> content]

(* refine_label_with_llm: outcome of the call, [raised, value] *)
refine_label_with_llm(has_key, label, reply) ==
  IF ~has_key THEN [raised |-> FALSE, value |-> _generate_actionable_title_fallback(label)]
  ELSE IF reply.kind = "raises"
    THEN [raised |-> FALSE, value |-> _generate_actionable_title_fallback(label)]
  ELSE [raised |-> FALSE, value |-> StrStripChars(StrStrip(reply.content), {"\"", "'"})]

(* Titles a text generator can answer with for the same texts *)
TitlePool ==
  {<<"\"", "S", "S", "O", " ", "l", "o", "g", "i", "n", " ", "b", "l", "o", "c", "k", "s", " ", "d", "e", "a", "l", "s", "\"">>, <<"S", "m", "i", "t", "h", " ", "e", "x", "p", "o", "r", "t", " ", "t", "a", "k", "e", "s", " ", "6", "0", " ", "d", "a", "y", "s">>,
   <<" ", "A", "c", "m", "e", " ", "n", "e", "e", "d", "s", " ", "S", "S", "O", " ">>}
TitleReplies == {Raises} \cup {Answers(t) : t \in TitlePool}
RefineLabelCalls ==
  {[fn |-> "refine_label_with_llm", extractor |-> x, has_key |-> k, reply |-> r] :
     x \in ExtractorOutcomes, k \in BOOLEAN, r \in TitleReplies}

(***************************************************************************)
(* services/insights.py: _generate_insights_with_llm.  A cluster's         *)
(* feedback list is a sequence of customer ids (0: no customer); an item   *)
(* is known by its position in that list and its text is its own.          *)
(***************************************************************************)
SampleCap == 3
MaxItems == 4

TextOf(position) == position

CustomersIncluded(items, sampled_feedback) ==
  {items[sampled_feedback[i]] : i \in 1..Len(sampled_feedback)}

(* First pass: one item of each customer not yet included, until the cap.  *)
(* As mutated below the loop does not stop at the cap.                     *)
RECURSIVE FirstPassUncapped(_, _, _)
FirstPassUncapped(items, i, sampled_feedback) ==
  IF i > Len(items) THEN sampled_feedback
  ELSE IF items[i] # 0 /\ items[i] \notin CustomersIncluded(items, sampled_feedback)
    THEN FirstPassUncapped(items, i + 1, Append(sampled_feedback, i))
  ELSE FirstPassUncapped(items, i + 1, sampled_feedback)

RECURSIVE FirstPass(_, _, _)
FirstPass(items, i, sampled_feedback) ==
  IF i > Len(items) THEN sampled_feedback
  ELSE IF items[i] # 0 /\ items[i] \notin CustomersIncluded(items, sampled_feedback)
    THEN IF Len(sampled_feedback) + 1 >= SampleCap
           THEN Append(sampled_feedback, i)
           ELSE FirstPass(items, i + 1, Append(sampled_feedback, i))
  ELSE FirstPass(items, i + 1, sampled_feedback)

(* Second pass: the items not yet in the sample, until the cap *)
RECURSIVE SecondPass(_, _, _)
SecondPass(items, i, sampled_feedback) ==
  IF i > Len(items) THEN sampled_feedback
  ELSE IF ~InSeq(i, sampled_feedback)
    THEN IF Len(sampled_feedback) + 1 >= SampleCap
           THEN Append(sampled_feedback, i)
           ELSE SecondPass(items, i + 1, Append(sampled_feedback, i))
  ELSE SecondPass(items, i + 1, sampled_feedback)

SampleFeedback(items) ==
  IF Len(FirstPass(items, 1, <<>>)) < SampleCap
  THEN SecondPass(items, 1, FirstPass(items, 1, <<>>))
  ELSE FirstPass(items, 1, <<>>)

(* key_quote_indices of one insight: the model's 1-based indices made      *)
(* 0-based, those outside the sample dropped, [0] when none is left        *)
ValidQuoteIndices(key_quotes, sampled_feedback) ==
  SelectSeq([j \in 1..Len(key_quotes) |-> key_quotes[j] - 1],
            LAMBDA idx : 0 <= idx /\ idx < Len(sampled_feedback))

KeyQuoteIndices(key_quotes, sampled_feedback) ==
  IF ValidQuoteIndices(key_quotes, sampled_feedback) = <<>> THEN <<0>>
  ELSE ValidQuoteIndices(key_quotes, sampled_feedback)

LlmInsight(insight_data, items, sampled_feedback) ==
  [title |-> insight_data.title,
   severity |-> insight_data.severity,
   effort |-> insight_data.effort,
   key_quote_indices |-> KeyQuoteIndices(insight_data.key_quotes, sampled_feedback),
   key_quotes |->
     [j \in 1..Len(KeyQuoteIndices(insight_data.key_quotes, sampled_feedback)) |->
        TextOf(sampled_feedback[KeyQuoteIndices(insight_data.key_quotes, sampled_feedback)[j] + 1])],
   supporting_feedback_ids |-> [i \in 1..Len(items) |-> i]]

(* the fallback's single insight; the model's texts match no keyword of    *)
(* the title, so its key quotes are the first items of the full list       *)
FallbackQuotes == 3

SimpleInsight(items, cat) ==
  [j \in 1..1 |->
     [title |-> _generate_simple_insight(1..Len(items), items, cat)[j].title,
      severity |-> _generate_simple_insight(1..Len(items), items, cat)[j].severity,
      effort |-> _generate_simple_insight(1..Len(items), items, cat)[j].effort,
      key_quote_indices |-> [q \in 1..Min2(FallbackQuotes, Len(items)) |-> q - 1],
      key_quotes |-> [q \in 1..Min2(FallbackQuotes, Len(items)) |-> TextOf(q)],
      supporting_feedback_ids |-> [i \in 1..Len(items) |-> i]]]

(* What the collaborator does with the prompt: it raises, its answer is    *)
(* not JSON, or its answer is a JSON object with a list of insights.       *)
Unparsable == [kind |-> "unparsable"]
Json(insight_list) == [kind |-> "json", insights |-> insight_list]

(* _generate_insights_with_llm: outcome [raised, value].  As mutated below *)
(* the try has no except.                                                  *)
_generate_insights_with_llm_uncaught(items, cat, reply) ==
  IF reply.kind \in {"raises", "unparsable"} THEN [raised |-> TRUE, value |-> <<>>]
  ELSE [raised |-> FALSE,
        value |-> [k \in 1..Len(reply.insights) |->
                     LlmInsight(reply.insights[k], items, SampleFeedback(items))]]

_generate_insights_with_llm(items, cat, reply) ==
  IF reply.kind \in {"raises", "unparsable"}
  THEN [raised |-> FALSE, value |-> SimpleInsight(items, cat)]
  ELSE [raised |-> FALSE,
        value |-> [k \in 1..Len(reply.insights) |->
                     LlmInsight(reply.insights[k], items, SampleFeedback(items))]]

(* generate_insights_for_cluster for one answer of the collaborator *)
GenerateInsights(has_key, items, cat, reply) ==
  IF Len(items) < MinLlmItems THEN [raised |-> FALSE, value |-> SimpleInsight(items, cat)]
  ELSE IF has_key THEN _generate_insights_with_llm(items, cat, reply)
  ELSE [raised |-> FALSE, value |-> SimpleInsight(items, cat)]

ItemLists(customers, max_len) == UNION {[1..n -> customers] : n \in 0..max_len}

(* no customer, or one of two customers *)
ItemCustomers == {0, 1, 2}

QuotePool == {<<1>>, <<2, 1>>, <<0, 9>>, <<3>>}
InsightDataPool ==
  {[title |-> TitleExports, severity |-> "high", effort |-> "low", key_quotes |-> q] :
     q \in QuotePool}
InsightReplies ==
  {Raises, Unparsable} \cup
  {Json(l) : l \in UNION {[1..n -> InsightDataPool] : n \in 0..MaxGen}}

GenerateInsightsCalls ==
  {[fn |-> "generate_insights_for_cluster", has_key |-> k, items |-> items,
    cat |-> "export", reply |-> r] :
     k \in BOOLEAN, items \in ItemLists(ItemCustomers, MaxItems), r \in InsightReplies}

SampleCalls ==
  {[fn |-> "sample", items |-> items] :
     items \in ItemLists(0..(SampleCap + 1), SampleCap + 1)}

(***************************************************************************)
(* SpecText: one call of a label or insight generation function, on any    *)
(* input of the pools above and any behaviour of its collaborator.         *)
(***************************************************************************)
NoRun ==
  /\ themes = {}
  /\ feedback_themes = {}
  /\ theme_metrics = {}
  /\ insights = <<>>
  /\ insight_feedback = {}
  /\ dedup = NoDedup
  /\ entry = "none"
  /\ has_openai = FALSE
  /\ embedded = {}
  /\ feedback_customer = [f \in FeedbackIds |-> 0]
  /\ customer_acv = <<>>
  /\ session = NoSession
  /\ todo = <<>>
  /\ log = <<>>
  /\ pre_db = Tables
  /\ seen = NotSeen
  /\ result = NoResult
  /\ NoTriggers
  /\ displayed = NoDisplay

InitText ==
  /\ NoRun
  /\ pc = "call"
  /\ fn_in \in GenerateLabelCalls \cup RefineLabelCalls \cup GenerateInsightsCalls
                 \cup SampleCalls
  /\ fn_out = NoCall

CallGenerateLabel ==
  /\ pc = "call"
  /\ fn_in.fn = "_generate_label"
  /\ fn_out' = [label |-> _generate_label(fn_in.extractor)]
  /\ pc' = "called"
  /\ fnFrame

(* run_clustering: the cluster's keyword label is refined into the theme's *)
CallRefineLabel ==
  /\ pc = "call"
  /\ fn_in.fn = "refine_label_with_llm"
  /\ fn_out' = [label |-> _generate_label(fn_in.extractor),
                refined |-> refine_label_with_llm(fn_in.has_key,
                                                  _generate_label(fn_in.extractor),
                                                  fn_in.reply)]
  /\ pc' = "called"
  /\ fnFrame

CallGenerateInsights ==
  /\ pc = "call"
  /\ fn_in.fn = "generate_insights_for_cluster"
  /\ fn_out' = GenerateInsights(fn_in.has_key, fn_in.items, fn_in.cat, fn_in.reply)
  /\ pc' = "called"
  /\ fnFrame

CallSample ==
  /\ pc = "call"
  /\ fn_in.fn = "sample"
  /\ fn_out' = [sampled_feedback |-> SampleFeedback(fn_in.items)]
  /\ pc' = "called"
  /\ fnFrame

NextText ==
  \/ CallGenerateLabel
  \/ CallRefineLabel
  \/ CallGenerateInsights
  \/ CallSample

SpecText == InitText /\ [][NextText]_vars

Called(fn) == pc = "called" /\ fn_in.fn = fn

(* C11: whatever keyphrases the extractor proposes for texts that mention  *)
(* the customer Acme Corp LLC, no keyword of the label _generate_label     *)
(* returns is the company name or the bare token Acme.                     *)
C11_LabelOmitsCustomerName ==
  Called("_generate_label") =>
    \A keyword \in LabelKeywords(fn_out.label) :
      StrLower(keyword) \notin {StrLower(Acme), StrLower(AcmeCorpLlc)}

(* the words of a list of keyphrases or of a title, in lower case *)
WordsOf(strings) ==
  UNION {{StrSplit(StrLower(strings[i]))[j] : j \in 1..Len(StrSplit(StrLower(strings[i])))} :
           i \in 1..Len(strings)}

NameWords == {StrLower(Acme), StrLower(Smith)}

(* the name tokens of the keyphrases that the filter leaves out *)
RemovedNameTokens(keywords) ==
  (WordsOf(keywords) \cap NameWords) \ WordsOf(_filter_names_from_keywords(keywords))

(* C12: the refined label, from the text generator or from the template    *)
(* fallback, contains no name token that _filter_names_from_keywords       *)
(* removed from the keyword label.                                         *)
C12_RefinementKeepsNamesOut ==
  Called("refine_label_with_llm") /\ ~fn_in.extractor.raises =>
    /\ ~fn_out.refined.raised
    /\ WordsOf(<<fn_out.refined.value>>) \cap RemovedNameTokens(fn_in.extractor.keywords) = {}

(* C13: generate_insights_for_cluster returns at least one insight on      *)
(* every path, and exactly the fallback's single insight for a cluster of  *)
(* fewer than 3 items, with or without a text generator.                   *)
C13_AtLeastOneInsight ==
  Called("generate_insights_for_cluster") =>
    /\ ~fn_out.raised
    /\ Len(fn_out.value) >= 1
    /\ Len(fn_in.items) < 3 =>
         Len(fn_out.value) = 1 /\ fn_out.value = SimpleInsight(fn_in.items, fn_in.cat)

(* C14: when the text generator is absent, raises, or answers something    *)
(* that cannot be parsed, generate_insights_for_cluster and                *)
(* refine_label_with_llm return exactly the deterministic fallback's       *)
(* result for the same inputs, and nothing is raised.                      *)
C14_FailureDegradesToFallback ==
  /\ Called("generate_insights_for_cluster")
       /\ (~fn_in.has_key \/ fn_in.reply.kind \in {"raises", "unparsable"}) =>
       fn_out = [raised |-> FALSE, value |-> SimpleInsight(fn_in.items, fn_in.cat)]
  /\ Called("refine_label_with_llm")
       /\ (~fn_in.has_key \/ fn_in.reply.kind = "raises") =>
       fn_out.refined =
         [raised |-> FALSE, value |-> _generate_actionable_title_fallback(fn_out.label)]

C14_UnparsableAnswerFellBack ==
  /\ Called("generate_insights_for_cluster")
  /\ fn_in.has_key
  /\ Len(fn_in.items) >= MinLlmItems
  /\ fn_in.reply.kind = "unparsable"
  /\ Len(fn_out.value) = 1

OnLlmPath ==
  /\ Called("generate_insights_for_cluster")
  /\ fn_in.has_key
  /\ Len(fn_in.items) >= MinLlmItems
  /\ fn_in.reply.kind = "json"

(* C15: on the text-generation path every key_quote_indices entry is a     *)
(* 0-based position in the full cluster feedback list, the item at that    *)
(* position is the one whose text is at the same place in key_quotes, and  *)
(* the model's indices outside the sample are dropped, the first sampled   *)
(* item standing in when none is left.                                     *)
C15_KeyQuoteIndicesPointIntoCluster ==
  OnLlmPath =>
    \A k \in 1..Len(fn_out.value) :
      /\ Len(fn_out.value[k].key_quotes) = Len(fn_out.value[k].key_quote_indices)
      /\ \A j \in 1..Len(fn_out.value[k].key_quote_indices) :
           /\ 0 <= fn_out.value[k].key_quote_indices[j]
           /\ fn_out.value[k].key_quote_indices[j] < Len(fn_in.items)
           /\ TextOf(fn_out.value[k].key_quote_indices[j] + 1) = fn_out.value[k].key_quotes[j]
      /\ (\A j \in 1..Len(fn_in.reply.insights[k].key_quotes) :
            fn_in.reply.insights[k].key_quotes[j] \notin 1..Len(SampleFeedback(fn_in.items)))
           => fn_out.value[k].key_quotes = <<TextOf(SampleFeedback(fn_in.items)[1])>>

(* the first item of each distinct customer, by position *)
FirstItems(items) ==
  {i \in 1..Len(items) : items[i] # 0 /\ \A j \in 1..(i - 1) : items[j] # items[i]}

NoItemTwice(sample) ==
  \A a, b \in 1..Len(sample) : a # b => sample[a] # sample[b]

MaxPoints == 3
Noise == -1

RECURSIVE LabelsMax(_)
LabelsMax(cluster_labels) ==
  IF Len(cluster_labels) = 1 THEN cluster_labels[1]
  ELSE Max2(Head(cluster_labels), LabelsMax(Tail(cluster_labels)))

(* np.where(mask)[0].tolist() for mask = (cluster_labels == cluster_id) *)
RECURSIVE Where(_, _, _)
Where(cluster_labels, cluster_id, i) ==
  IF i >= Len(cluster_labels) THEN <<>>
  ELSE (IF cluster_labels[i + 1] = cluster_id THEN <<i>> ELSE <<>>)
         \o Where(cluster_labels, cluster_id, i + 1)

ClusterResult(cluster_labels, probabilities, cluster_id) ==
  [cluster_id |-> cluster_id,
   member_indices |-> Where(cluster_labels, cluster_id, 0),
   member_confidences |->
     [j \in 1..Len(Where(cluster_labels, cluster_id, 0)) |->
        probabilities[Where(cluster_labels, cluster_id, 0)[j] + 1]]]

(* As mutated below the loop over the cluster ids starts at the noise      *)
(* label instead of 0.                                                     *)
cluster_embeddings_from_noise(cluster_labels, probabilities) ==
  IF Len(cluster_labels) < clustering_min_feedback_count THEN <<>>
  ELSE [k \in 1..(LabelsMax(cluster_labels) + 2) |->
          ClusterResult(cluster_labels, probabilities, k - 2)]

cluster_embeddings(cluster_labels, probabilities) ==
  IF Len(cluster_labels) < clustering_min_feedback_count THEN <<>>
  ELSE [k \in 1..(LabelsMax(cluster_labels) + 1) |->
          ClusterResult(cluster_labels, probabilities, k - 1)]

(* any labelling of the points, gaps in the cluster ids included *)
LabelLists == UNION {[1..n -> Noise..(MaxClusters - 1)] : n \in 0..MaxPoints}
ProbabilityValues == {5, 10}
ClusterCalls ==
  {[fn |-> "cluster_embeddings", cluster_labels |-> l, probabilities |-> p] :
     l \in LabelLists, p \in UNION {[1..n -> ProbabilityValues] : n \in 0..MaxPoints}}

(***************************************************************************)
(* scripts/run_clustering.py: the weekly counts calculate_theme_metrics    *)
(* hands to the scorer for a theme, given how many of the theme's feedback *)
(* items were created in each week of the window (oldest week first).      *)
(***************************************************************************)
NumWeeks == 12
MaxWeekItems == 12

WeeklyCounts(feedback_items) ==
  [k \in 1..NumWeeks |-> feedback_items \div NumWeeks]

(* all of the theme's items in one week, or as many in every week *)
Burst(week, n) == [k \in 1..NumWeeks |-> IF k = week THEN n ELSE 0]
Even(n) == [k \in 1..NumWeeks |-> n]
CreatedPerWeek ==
  {Burst(week, n) : week \in 1..NumWeeks, n \in 0..MaxWeekItems} \cup
  {Even(n) : n \in 0..MaxWeekItems}
WeeklyCountsCalls == {[fn |-> "weekly_counts", created |-> c] : c \in CreatedPerWeek}

InitCalc ==
  /\ NoRun
  /\ pc = "call"
  /\ \/ fn_in \in {c \in ClusterCalls : Len(c.cluster_labels) = Len(c.probabilities)}
     \/ fn_in \in WeeklyCountsCalls
  /\ fn_out = NoCall

CallClusterEmbeddings ==
  /\ pc = "call"
  /\ fn_in.fn = "cluster_embeddings"
  /\ fn_out' = [results |-> cluster_embeddings(fn_in.cluster_labels, fn_in.probabilities)]
  /\ pc' = "called"
  /\ fnFrame

(* calculate_theme_metrics: the theme's weekly counts and the trend the    *)
(* scorer computes from them                                               *)
CallWeeklyCounts ==
  /\ pc = "call"
  /\ fn_in.fn = "weekly_counts"
  /\ fn_out' = [weekly_counts |-> WeeklyCounts(SumSeq(fn_in.created)),
                trend |-> calculate_trend_momentum(WeeklyCounts(SumSeq(fn_in.created)))]
  /\ pc' = "called"
  /\ fnFrame

NextCalc ==
  \/ CallClusterEmbeddings
  \/ CallWeeklyCounts

SpecCalc == InitCalc /\ [][NextCalc]_vars

(* C17: the weekly_counts handed to the scorer have length 12, oldest week *)
(* first, the k-th entry being the number of the theme's feedback items    *)
(* created in week k, so that the trend is the slope of the actual counts. *)
C17_WeeklyCountsAreActual ==
  Called("weekly_counts") =>
    /\ Len(fn_out.weekly_counts) = 12
    /\ \A k \in 1..12 : fn_out.weekly_counts[k] = fn_in.created[k]
    /\ fn_out.trend = calculate_trend_momentum(fn_in.created)

Clustered ==
  /\ Called("cluster_embeddings")
  /\ Len(fn_in.cluster_labels) >= clustering_min_feedback_count

Occurrences(seq, x) == Cardinality({j \in 1..Len(seq) : seq[j] = x})

(* C18: for any label assignment, a point labelled noise is in no          *)
(* ClusterResult, every other point is in exactly one ClusterResult's      *)
(* member_indices, member_confidences is as long as member_indices, and    *)
(* the result is empty when every point is noise.                          *)
C18_NoiseDroppedOthersOnce ==
  Clustered =>
    /\ \A i \in 0..(Len(fn_in.cluster_labels) - 1) :
         IF fn_in.cluster_labels[i + 1] = Noise
         THEN \A k \in 1..Len(fn_out.results) :
                Occurrences(fn_out.results[k].member_indices, i) = 0
         ELSE \E k \in 1..Len(fn_out.results) :
                /\ Occurrences(fn_out.results[k].member_indices, i) = 1
                /\ \A other \in 1..Len(fn_out.results) :
                     other # k => Occurrences(fn_out.results[other].member_indices, i) = 0
    /\ \A k \in 1..Len(fn_out.results) :
         Len(fn_out.results[k].member_confidences) = Len(fn_out.results[k].member_indices)
    /\ (\A i \in 1..Len(fn_in.cluster_labels) : fn_in.cluster_labels[i] = Noise)
         => fn_out.results = <<>>

C18_NoiseAmongClusters ==
  /\ Clustered
  /\ \E i \in 1..Len(fn_in.cluster_labels) : fn_in.cluster_labels[i] = Noise
  /\ Len(fn_out.results) = 2
  /\ \A k \in 1..2 : fn_out.results[k].member_indices # <<>>

(***************************************************************************)
(* The result run_clustering_pipeline reports, in Spec: one run, no other  *)
(* session writing the derived tables while it executes.                   *)
(***************************************************************************)
TooFew == entry = "pipeline" /\ Cardinality(embedded) < clustering_min_feedback_count

(* C19: with fewer embedded feedback items than clustering_min_feedback_   *)
(* count, cluster_embeddings returns an empty list, and a                  *)
(* run_clustering_pipeline call whose clearing transaction went through    *)
(* processes no cluster, raises nothing, creates no Theme and returns      *)
(* themes_created = 0 and insights_created = 0.                            *)
C19_TooFewShortCircuits ==
  /\ \A l \in LabelLists :
       Len(l) < clustering_min_feedback_count =>
         cluster_embeddings(l, [i \in 1..Len(l) |-> 10]) = <<>>
  /\ TooFew =>
       /\ pc \in {"clear", "failed_clear", "load", "counts", "done"}
       /\ todo = <<>> /\ log = <<>> /\ session = NoSession
       /\ pc \in {"load", "counts", "done"} => themes = {} /\ DOMAIN insights = {}
       /\ pc = "done" =>
            result = [returned |-> TRUE, themes_created |-> 0, insights_created |-> 0]

C19_ShortCircuitOverOldTables ==
  /\ TooFew
  /\ pc = "done"
  /\ result.returned
  /\ pre_db.themes # {}
  /\ themes = {}

RECURSIVE StoredInsights(_)
StoredInsights(theme_ids) ==
  IF theme_ids = {} THEN 0
  ELSE CHOOSE n \in {log[t].stored + StoredInsights(theme_ids \ {t}) :
                     t \in {SetMin(theme_ids)}} : TRUE

(* C20: when run_clustering_pipeline returns, themes_created is the number *)
(* of Theme rows of this run, one per non-noise cluster, and               *)
(* insights_created is the number of Insight rows this run stored less     *)
(* those its deduplication deleted, which are the run's rows in the table. *)
C20_CountsAreThisRunsRows ==
  pc = "done" /\ entry = "pipeline" =>
    /\ result.returned
    /\ result.themes_created = Cardinality({t \in themes : ThemeRun(t) = ThisRun})
    /\ result.themes_created = Cardinality(DOMAIN log)
    /\ result.insights_created =
         Cardinality({x \in DOMAIN insights : ThemeRun(insights[x].theme_id) = ThisRun})
    /\ result.insights_created =
         StoredInsights(DOMAIN log) - Cardinality(dedup.to_delete)

C20_ReturnedAfterDedupDeleted ==
  /\ pc = "done"
  /\ entry = "pipeline"
  /\ result.returned
  /\ result.themes_created = 2
  /\ dedup.to_delete # {}
  /\ result.insights_created >= 1

(***************************************************************************)
(* SpecRepeat: calculate_theme_metrics run twice over the same data, for   *)
(* one theme with one feedback item of each customer.  The customers come  *)
(* back from db.query(Customer)...all(), which has no ORDER BY, in some    *)
(* order, and sum() adds their acv (a Float column) in that order.         *)
(* A double is written hi * 2^53 + lo with hi in {0, 1} and a small whole  *)
(* lo: below 2^53 every whole number is a double, from 2^53 on only the    *)
(* even ones are, and a sum in between is rounded to the neighbour with    *)
(* the even mantissa.                                                      *)
(***************************************************************************)
MetricCustomers == 3

RoundToDouble(hi, lo) ==
  IF hi = 0 \/ lo % 2 = 0 THEN [hi |-> hi, lo |-> lo]
  ELSE IF ((lo - 1) \div 2) % 2 = 0 THEN [hi |-> hi, lo |-> lo - 1]
  ELSE [hi |-> hi, lo |-> lo + 1]

FloatAdd(x, y) == RoundToDouble(x.hi + y.hi, x.lo + y.lo)

(* sum(c.acv for c in customers) over the rows in the order returned *)
RECURSIVE FloatSum(_, _, _)
FloatSum(acv, order, total) ==
  IF order = <<>> THEN total
  ELSE CHOOSE r \in {FloatSum(acv, Tail(order), t) :
                     t \in {FloatAdd(total, acv[Head(order)])}} : TRUE

(* the ThemeMetrics row stored for the theme, the only one, so that the    *)
(* maxima are its own values and acv_norm is x / x                         *)
ThemeMetricsRow(acv, order) ==
  [freq_30d |-> Cardinality(DOMAIN acv),
   freq_90d |-> Cardinality(DOMAIN acv),
   acv_sum |-> FloatSum(acv, order, [hi |-> 0, lo |-> 0]),
   sentiment |-> 0,
   trend |-> calculate_trend_momentum(WeeklyCounts(Cardinality(DOMAIN acv))),
   dup_penalty |-> calculate_dup_penalty(0),
   score |->
     Clamp(0, Scale,
           (ScoreWeights.frequency
              * calculate_frequency_norm(Cardinality(DOMAIN acv), Cardinality(DOMAIN acv),
                                         Cardinality(DOMAIN acv), Cardinality(DOMAIN acv))
            + ScoreWeights.acv
              * (IF FloatSum(acv, order, [hi |-> 0, lo |-> 0]) = [hi |-> 0, lo |-> 0]
                 THEN 0 ELSE Scale)
            + ScoreWeights.sentiment * calculate_sentiment_lift(0)
            + ScoreWeights.segment
              * calculate_segment_priority([ENT |-> Cardinality(DOMAIN acv), MM |-> 0,
                                            SMB |-> 0], SegmentPriorities)
            + ScoreWeights.trend
              * calculate_trend_momentum(WeeklyCounts(Cardinality(DOMAIN acv)))
            - ScoreWeights.duplicate * calculate_dup_penalty(0)) \div Scale)]

(* whole amounts, and one customer at most with an acv of 2^53 *)
AcvDoubles == {[hi |-> 0, lo |-> 0], [hi |-> 0, lo |-> 1], [hi |-> 0, lo |-> 3],
               [hi |-> 1, lo |-> 0]}
CustomerAcvs ==
  {acv \in [1..MetricCustomers -> AcvDoubles] :
     Cardinality({c \in 1..MetricCustomers : acv[c].hi = 1}) <= 1}

InitRepeat ==
  /\ NoRun
  /\ pc = "run 1"
  /\ fn_in \in {[fn |-> "calculate_theme_metrics", acv |-> acv] : acv \in CustomerAcvs}
  /\ fn_out = <<>>

(* one pipeline run's calculate_theme_metrics: the row it stores *)
CalculateThemeMetrics ==
  /\ pc \in {"run 1", "run 2"}
  /\ \E order \in Orders(DOMAIN fn_in.acv) :
       fn_out' = Append(fn_out, ThemeMetricsRow(fn_in.acv, order))
  /\ pc' = IF pc = "run 1" THEN "run 2" ELSE "ran twice"
  /\ fnFrame

NextRepeat == CalculateThemeMetrics

SpecRepeat == InitRepeat /\ [][NextRepeat]_vars

(* C21: two runs over the same feedback, embeddings and customers, at the  *)
(* same time and without a text generator, store the same ThemeMetrics     *)
(* values and the same score for the theme.                                *)
C21_RunsStoreIdenticalMetrics ==
  pc = "ran twice" => fn_out[1] = fn_out[2]

(***************************************************************************)
(* SpecUpsert: the upsert loop of calculate_theme_metrics over the         *)
(* theme_metrics table, a set of rows [id, theme_id, computed]; computed   *)
(* tells which computation wrote the row's values (0: an earlier run).     *)
(* The table starts with at most one row per theme (theme_id is UNIQUE)    *)
(* and rows of existing themes only (the foreign key).                     *)
(***************************************************************************)
MaxThemes == 4

RowsOfTheme(rows, theme) == {r \in rows : r.theme_id = theme}

NextRowId(rows) == IF rows = {} THEN 1 ELSE 1 + CHOOSE i \in {r.id : r \in rows} :
                                                  \A r \in rows : r.id <= i

(* As mutated below a new row is added without looking for the theme's.    *)
UpsertAlwaysAdds(rows, theme, computed) ==
  rows \cup {[id |-> NextRowId(rows), theme_id |-> theme, computed |-> computed]}

(* .filter(ThemeMetrics.theme_id == theme.id).first(), then either the new *)
(* ThemeMetrics(theme_id=theme.id) or the row found gets the values        *)
Upsert(rows, theme, computed) ==
  IF RowsOfTheme(rows, theme) = {}
  THEN rows \cup {[id |-> NextRowId(rows), theme_id |-> theme, computed |-> computed]}
  ELSE {IF r = (CHOOSE first \in RowsOfTheme(rows, theme) :
                  \A other \in RowsOfTheme(rows, theme) : first.id <= other.id)
        THEN [r EXCEPT !.computed = computed] ELSE r : r \in rows}

RECURSIVE UpsertAll(_, _, _)
UpsertAll(rows, theme_ids, computed) ==
  IF theme_ids = {} THEN rows
  ELSE CHOOSE r \in {UpsertAll(after, theme_ids \ {SetMin(theme_ids)}, computed) :
                     after \in {Upsert(rows, SetMin(theme_ids), computed)}} : TRUE

(* the rows an earlier run left for the themes in with_row *)
EarlierRows(with_row) ==
  {[id |-> t, theme_id |-> t, computed |-> 0] : t \in with_row}

UpsertInputs ==
  {[fn |-> "calculate_theme_metrics", themes |-> ts, with_row |-> w] :
     ts \in SUBSET (1..MaxThemes), w \in SUBSET (1..MaxThemes)}

InitUpsert ==
  /\ NoRun
  /\ pc = "themes stored"
  /\ fn_in \in {i \in UpsertInputs : i.with_row \subseteq i.themes}
  /\ fn_out = EarlierRows(fn_in.with_row)

(* calculate_theme_metrics at the end of the run *)
CalculateMetricsRows ==
  /\ pc = "themes stored"
  /\ fn_out' = UpsertAll(fn_out, fn_in.themes, 1)
  /\ pc' = "calculated"
  /\ fnFrame

(* calculate_theme_metrics called once more *)
CalculateMetricsAgain ==
  /\ pc = "calculated"
  /\ fn_out' = UpsertAll(fn_out, fn_in.themes, 2)
  /\ pc' = "recalculated"
  /\ fnFrame

NextUpsert ==
  \/ CalculateMetricsRows
  \/ CalculateMetricsAgain

SpecUpsert == InitUpsert /\ [][NextUpsert]_vars

(* C22: after calculate_theme_metrics has run, every Theme has exactly one *)
(* ThemeMetrics row, and running it again writes the new values into that  *)
(* row without adding one.                                                 *)
C22_OneMetricsRowPerTheme ==
  /\ [](pc \in {"calculated", "recalculated"} =>
          /\ \A t \in fn_in.themes : Cardinality(RowsOfTheme(fn_out, t)) = 1
          /\ Cardinality(fn_out) = Cardinality(fn_in.themes)
          /\ \A r \in fn_out : r.computed = IF pc = "calculated" THEN 1 ELSE 2)
  /\ [][pc = "calculated" =>
          {<<r.id, r.theme_id>> : r \in fn_out'} = {<<r.id, r.theme_id>> : r \in fn_out}]_vars

C22_RecalculatedOldAndNewRows ==
  /\ pc = "recalculated"
  /\ \E t \in fn_in.themes : t \in fn_in.with_row
  /\ \E t \in fn_in.themes : t \notin fn_in.with_row

(***************************************************************************)
(* deduplicate_insights: what is left after it returned (SpecDedup).       *)
(***************************************************************************)
Returned == pc = "dedup_done" /\ dedup.state = "returned"

(* C23: after deduplicate_insights returned, no two surviving insights     *)
(* have titles whose similarity ratio is above 0.85, whichever of the two  *)
(* titles is taken first.                                                  *)
C23_NoSimilarSurvivors ==
  Returned =>
    \A a, b \in DOMAIN insights :
      a # b => <<insights[a].title, insights[b].title>> \notin SimilarTitles

(* C24: every insight deduplicate_insights deleted has a title similar to  *)
(* the title of a surviving insight whose priority_score is not lower, and *)
(* no insight was merged into one that was already marked for deletion.    *)
C24_DeletedHasBetterSurvivor ==
  Returned =>
    /\ \A x \in dedup.to_delete :
         \E y \in DOMAIN insights :
           /\ \/ <<pre_db.insights[x].title, insights[y].title>> \in SimilarTitles
              \/ <<insights[y].title, pre_db.insights[x].title>> \in SimilarTitles
           /\ insights[y].priority_score >= pre_db.insights[x].priority_score
    /\ dedup.merged_late = {}

(* C30: whatever the order in which db.query(Insight).all() returns the    *)
(* rows, deduplicate_insights ends the same way, with the same surviving   *)
(* insights and the same feedback links.                                   *)
C30_OutcomeIndependentOfOrder ==
  pc = "dedup_done" =>
    \A order \in Orders(DOMAIN pre_db.insights) :
      \A d \in {deduplicate_insights(order, pre_db.insights, pre_db.insight_feedback)} :
        /\ d.state = dedup.state
        /\ d.insights = insights
        /\ d.links = insight_feedback

(***************************************************************************)
(* The stored insights of the pipeline (Spec).                             *)
(***************************************************************************)
LinkedFeedback(x) == {l[2] : l \in {m \in insight_feedback : m[1] = x}}

(* C25: in every state, each stored insight is linked through             *)
(* InsightFeedback to exactly the feedback ids of its                      *)
(* supporting_feedback_ids snapshot, also after the deduplication merged   *)
(* other insights into it.                                                 *)
C25_LinksEqualSnapshot ==
  \A x \in DOMAIN insights : LinkedFeedback(x) = insights[x].supporting_feedback_ids

(* C26: every stored insight has a severity among low, medium, high and    *)
(* critical, an effort among low, medium and high, and a priority_score    *)
(* within 0..100 that is the value derived from that severity and effort.  *)
C26_SeverityEffortPriorityValid ==
  \A x \in DOMAIN insights :
    /\ insights[x].severity \in DOMAIN SeverityScores
    /\ insights[x].effort \in DOMAIN EffortScores
    /\ insights[x].priority_score \in 0..100
    /\ insights[x].priority_score = priority_score(insights[x].severity, insights[x].effort)

(***************************************************************************)
(* SpecCompetitive: a run over tables that also hold an insight stored by  *)
(* CompetitiveIntelService._create_insight_record: category                *)
(* competitive_intel, theme_id None, no feedback links.                    *)
(***************************************************************************)
CompetitiveInsight == InsightRow(NoTheme, TitleExports, "high", "medium", 62, {}, {})

WithCompetitive(t) ==
  [t EXCEPT !.insights = (InsightId(NoTheme, 1) :> CompetitiveInsight) @@ t.insights]

InitCompetitive ==
  /\ feedback_customer = [f \in FeedbackIds |-> IF f <= 2 THEN 1 ELSE IF f = 3 THEN 2 ELSE 0]
  /\ customer_acv = <<100, 50>>
  /\ \E t \in {WithCompetitive(EmptyTables),
               WithCompetitive(OldTables(feedback_customer, customer_acv))} :
       /\ themes = t.themes
       /\ feedback_themes = t.feedback_themes
       /\ theme_metrics = t.theme_metrics
       /\ insights = t.insights
       /\ insight_feedback = t.insight_feedback
       /\ pre_db = t
  /\ has_openai \in BOOLEAN
  /\ \E n \in {clustering_min_feedback_count - 1, NumFeedback} : embedded = 1..n
  /\ pc = "idle"
  /\ dedup = NoDedup
  /\ entry = "none"
  /\ session = NoSession
  /\ todo = <<>>
  /\ log = <<>>
  /\ seen = NotSeen
  /\ result = NoResult
  /\ NoTriggers
  /\ displayed = NoDisplay
  /\ NoCalls

SpecCompetitive == InitCompetitive /\ [][Next]_vars

(* C27: a run never deletes or changes an insight that has no theme, and   *)
(* never moves feedback links to it: such an insight stays in the table    *)
(* with the same values and the same links as before the run.              *)
C27_ThemelessInsightsUntouched ==
  \A x \in DOMAIN pre_db.insights :
    pre_db.insights[x].theme_id = NoTheme =>
      /\ x \in DOMAIN insights
      /\ insights[x] = pre_db.insights[x]
      /\ LinkedFeedback(x) = {l[2] : l \in {m \in pre_db.insight_feedback : m[1] = x}}

(* C28: a run that finds fewer embedded feedback items than                *)
(* clustering_min_feedback_count leaves the Theme, FeedbackTheme,          *)
(* ThemeMetrics, Insight and InsightFeedback rows as they were before it.  *)
C28_TooFewLeavesRowsUnchanged ==
  Cardinality(embedded) < clustering_min_feedback_count => Tables = pre_db

(***************************************************************************)
(* SpecTriggerFair: the background tasks of SpecTrigger, each of which     *)
(* goes on once it was added: Starlette runs the added tasks after the     *)
(* response, run_clustering_task has no wait of its own, and the call of   *)
(* run_clustering_pipeline returns or raises.                              *)
(***************************************************************************)
TaskStep(t) ==
  /\ t \in DOMAIN tasks
  /\ \/ TaskOpenStatusFile(t)
     \/ TaskMarkRunning(t)
     \/ TaskPipelineReturns(t)
     \/ TaskPipelineRaises(t)
     \/ TaskMarkCompleted(t)
     \/ TaskMarkFailed(t)

SpecTriggerFair == SpecTrigger /\ \A t \in TaskIds : WF_vars(TaskStep(t))

WroteRunning(t) == t \in DOMAIN tasks /\ tasks[t].pc = "running"

(* the state the final write of task t leaves *)
WroteFinalStatus(t) ==
  /\ t \in DOMAIN tasks
  /\ \/ /\ tasks[t].pc = "ended"
        /\ status_file = set_clustering_status(FALSE, "completed", tasks[t].result, "")
     \/ /\ tasks[t].pc = "ended_raising"
        /\ status_file = set_clustering_status(FALSE, "failed", NoResultYet, "error")

BetweenWrites == {t \in DOMAIN tasks : tasks[t].pc \in {"running", "returned", "raised"}}

(* C29: once a task has written is_running = true, the status eventually   *)
(* is is_running = false with "completed" and the counts of that task's    *)
(* run when run_clustering_pipeline returned, with "failed" and the error  *)
(* when it raised and the task ended raising; and whenever the status is   *)
(* "running", a task that wrote it has not ended.                          *)
C29_StatusLeavesRunning ==
  /\ \A t \in TaskIds : WroteRunning(t) ~> WroteFinalStatus(t)
  /\ [](get_clustering_status.is_running => BetweenWrites # {})
====
